---- MODULE Spec2Model ----
(***************************************************************************)
(* Bridge reliability subsystem of the App class (frontend/src/App.ts):    *)
(* the connection monitor, the binding resolver (callBackend), the         *)
(* lifecycle event queue and the window registry.                          *)
(*                                                                         *)
(* Every handler of the program (a DOM listener, a timer callback, a       *)
(* window-manager callback, a promise continuation) runs to completion on  *)
(* the single UI thread, so each one is one action.  A handler is written  *)
(* as a function from the record of the App's fields to the record after   *)
(* it; the action commits that record to the variables.                    *)
(*                                                                         *)
(* Left out of the state: the wall-clock strings wsBackendLastOkAt and     *)
(* wsLastHeartbeatAt and the `at`/`timestamp` strings of the connection    *)
(* reports, which no handler reads back; the DOM; the Logger.              *)
(***************************************************************************)
EXTENDS Integers, Sequences, FiniteSets, TLC

VARIABLES
  \* ---- the embedded runtime's global registry (window.*) ----
  webui,            \* window.webui: "absent" | "nocall" (object without call()) | "full"
  globals,          \* global name -> "absent" | "ok" | "throws": window[name] as a callable
  \* ---- connection monitor ----
  mounted,          \* mount() has run
  eventCallback,    \* webui.setEventCallback(fn) has registered the handler
  wsState,
  wsStateHistory,   \* sequence of [state, reason]
  wsReconnectAttempts,
  wsLastError,
  wsBackendSendOk,
  wsBackendSendFail,
  wsRuntimePort,    \* a port number or Null
  wsRuntimePortSource,
  pendingCalls,     \* webui.call promises not settled yet: operation name -> how many
  wsHeartbeatTimer, \* Null, or the running interval timer (its period in milliseconds)
  \* ---- lifecycle queue ----
  lifecycleQueue,   \* sequence of payloads
  lifecycleFlushTimer, \* Null, or the running interval timer (its period in milliseconds)
  lifecycleLastSent,\* Map: window id -> [state, ts]
  lifecycleFocusTimers, \* Map: window id -> the pending timer [due, title]
  \* ---- window registry ----
  activeWindows,    \* sequence of WindowInfo records
  winboxes,         \* window-manager instances created so far: sequence of [id, title, alive]
  focusTimeouts,    \* the untracked setTimeout(..., 0) callbacks of focusWindow: set of handles
  WinBox,           \* window.WinBox is set
  openCalls,        \* the openWindow calls suspended at their await: sequence of titles
  now,              \* Date.now()
  \* ---- the BackendBridge object (frontend/src/app/backend-bridge.ts) ----
  bridge,           \* its fields, as a record
  \* ---- observation of the last handler (not program state) ----
  produced,         \* number of lifecycle payloads produced so far (payload identity)
  dispatched,       \* the payloads of the log_window_lifecycle calls that returned true, in order
  calls,            \* the callBackend invocations of the last handler, in order
  emitted,          \* the lifecycle payloads the last handler produced, in order
  refreshes,        \* number of updateWsStatusBar() calls in the last handler
  op                \* the last handler and its arguments

envVars == <<webui, globals>>
monVars == <<mounted, eventCallback, wsState, wsStateHistory, wsReconnectAttempts,
             wsLastError, wsBackendSendOk, wsBackendSendFail, wsRuntimePort,
             wsRuntimePortSource, pendingCalls, wsHeartbeatTimer>>
queueVars == <<lifecycleQueue, lifecycleFlushTimer, lifecycleLastSent, lifecycleFocusTimers>>
winVars == <<activeWindows, winboxes, focusTimeouts, WinBox, openCalls>>
obsVars == <<produced, dispatched, calls, emitted, refreshes, op>>
vars == <<envVars, monVars, queueVars, winVars, now, bridge, obsVars>>

Null == 0              \* null: no port of the program is 0
FlushIntervalMs == 1000      \* period of the lifecycle flush timer
HeartbeatIntervalMs == 1500  \* period of the heartbeat timer
NoReason == ""         \* reason omitted (undefined)

(***************************************************************************)
(* Bounds of the exploration.                                              *)
(***************************************************************************)
MaxHistory == 4       \* handlers start while the history is shorter than this
MaxSends == 2         \* ... and the dispatched backend calls fewer than this
MaxClock == 250       \* the clock stops here
MaxWinboxes == 2      \* windows created per run
MaxProduced == 3      \* handlers start while fewer payloads than this were produced
MaxTimeouts == 1      \* focusWindow's zero-delay callbacks pending at once
MaxBurst == 260       \* payloads produced in the queue-capacity runs

(***************************************************************************)
(* Program constants.                                                      *)
(***************************************************************************)
WsHistoryCap == 200
BridgeHistoryCap == 50
BridgeHistoryKeep == 25
LifecycleQueueCap == 256
DedupWindowMs == 250
BridgeDedupWindowMs == 250
FocusDebounceMs == 120
BridgeFocusDebounceMs == 100
MaxPort == 65535

WsConnectionStates ==
  {"initializing", "connected", "disconnected", "reconnecting", "bridge_missing", "error"}
WindowLifecycleStates == {"opened", "focused", "active", "minimized", "restored", "closed"}
OperationNames == {"log_window_lifecycle", "ws_state_change", "ws_error_report", "ws_heartbeat"}

(***************************************************************************)
(* Names.  An operation name is a string of the program; the resolver's    *)
(* spelling conversions work on its characters, so a name is spelled out   *)
(* as a sequence of one-character strings where it is converted or looked  *)
(* up in the global registry.                                              *)
(***************************************************************************)
LowerChars == <<"a","b","c","d","e","f","g","h","i","j","k","l","m",
                "n","o","p","q","r","s","t","u","v","w","x","y","z">>
UpperChars == <<"A","B","C","D","E","F","G","H","I","J","K","L","M",
                "N","O","P","Q","R","S","T","U","V","W","X","Y","Z">>

IsLower(c) == \E i \in 1..26 : LowerChars[i] = c
IsUpper(c) == \E i \in 1..26 : UpperChars[i] = c
ToUpperCase(c) == IF IsLower(c) THEN UpperChars[CHOOSE i \in 1..26 : LowerChars[i] = c] ELSE c
ToLowerCase(c) == IF IsUpper(c) THEN LowerChars[CHOOSE i \in 1..26 : UpperChars[i] = c] ELSE c

Chars(name) ==
  CASE name = "log_window_lifecycle" ->
         <<"l","o","g","_","w","i","n","d","o","w","_","l","i","f","e","c","y","c","l","e">>
    [] name = "ws_state_change" ->
         <<"w","s","_","s","t","a","t","e","_","c","h","a","n","g","e">>
    [] name = "ws_error_report" ->
         <<"w","s","_","e","r","r","o","r","_","r","e","p","o","r","t">>
    [] name = "ws_heartbeat" ->
         <<"w","s","_","h","e","a","r","t","b","e","a","t">>

\* name.replace(/_([a-z])/g, (_, c) => c.toUpperCase())
RECURSIVE ToCamel(_)
ToCamel(cs) ==
  IF cs = <<>> THEN <<>>
  ELSE IF Len(cs) >= 2 /\ cs[1] = "_" /\ IsLower(cs[2])
       THEN <<ToUpperCase(cs[2])>> \o ToCamel(SubSeq(cs, 3, Len(cs)))
       ELSE <<cs[1]>> \o ToCamel(Tail(cs))

\* name.replace(/[A-Z]/g, (c) => `_${c.toLowerCase()}`)
RECURSIVE ToSnake(_)
ToSnake(cs) ==
  IF cs = <<>> THEN <<>>
  ELSE IF IsUpper(cs[1])
       THEN <<"_", ToLowerCase(cs[1])>> \o ToSnake(Tail(cs))
       ELSE <<cs[1]>> \o ToSnake(Tail(cs))

\* The global names the embedded runtime may bind in the explored configurations.
GlobalNames ==
  UNION {{Chars(n), ToCamel(Chars(n))} : n \in OperationNames}

\* window[candidate] as a callable: its behaviour when called, or "absent".
GlobalCallable(registry, cs) == IF cs \in DOMAIN registry THEN registry[cs] ELSE "absent"

\* The first of the three spellings that is bound to a function, or "absent" (null).
\* The spellings tried for each operation name, in order: the name itself, its
\* camelCase form and its snake_case form.
Candidates ==
  [name \in OperationNames |->
     <<Chars(name), ToCamel(Chars(name)), ToSnake(Chars(name))>>]

resolveBackendBinding(registry, name) ==
  LET candidates == Candidates[name]
      hits == {i \in 1..3 : GlobalCallable(registry, candidates[i]) # "absent"}
  IN IF hits = {} THEN "absent"
     ELSE GlobalCallable(registry, candidates[CHOOSE i \in hits : \A j \in hits : i <= j])

(***************************************************************************)
(* The App's fields as one record, with the global registry the running    *)
(* handler sees (webui, globals).                                          *)
(***************************************************************************)
This ==
  [ webui |-> webui, globals |-> globals,
    wsState |-> wsState, wsStateHistory |-> wsStateHistory,
    wsReconnectAttempts |-> wsReconnectAttempts, wsLastError |-> wsLastError,
    wsBackendSendOk |-> wsBackendSendOk, wsBackendSendFail |-> wsBackendSendFail,
    wsRuntimePort |-> wsRuntimePort, wsRuntimePortSource |-> wsRuntimePortSource,
    pendingCalls |-> pendingCalls, eventCallback |-> eventCallback,
    wsHeartbeatTimer |-> wsHeartbeatTimer, lifecycleFlushTimer |-> lifecycleFlushTimer,
    lifecycleQueue |-> lifecycleQueue, lifecycleLastSent |-> lifecycleLastSent,
    lifecycleFocusTimers |-> lifecycleFocusTimers,
    activeWindows |-> activeWindows, winboxes |-> winboxes,
    focusTimeouts |-> focusTimeouts, WinBox |-> WinBox, openCalls |-> openCalls,
    produced |-> produced, dispatched |-> dispatched, calls |-> <<>>, emitted |-> <<>>, refreshes |-> 0,
    ret |-> FALSE,
    \* the clock within the handler: the milliseconds it has moved since the
    \* handler began, and those it moves before the handler's next new Date()
    elapsed |-> 0, ahead |-> 0 ]

Commit(s) ==
  /\ webui' = s.webui
  /\ globals' = s.globals
  /\ wsState' = s.wsState
  /\ wsStateHistory' = s.wsStateHistory
  /\ wsReconnectAttempts' = s.wsReconnectAttempts
  /\ wsLastError' = s.wsLastError
  /\ wsBackendSendOk' = s.wsBackendSendOk
  /\ wsBackendSendFail' = s.wsBackendSendFail
  /\ wsRuntimePort' = s.wsRuntimePort
  /\ wsRuntimePortSource' = s.wsRuntimePortSource
  /\ pendingCalls' = s.pendingCalls
  /\ eventCallback' = s.eventCallback
  /\ wsHeartbeatTimer' = s.wsHeartbeatTimer
  /\ lifecycleFlushTimer' = s.lifecycleFlushTimer
  /\ lifecycleQueue' = s.lifecycleQueue
  /\ lifecycleLastSent' = s.lifecycleLastSent
  /\ lifecycleFocusTimers' = s.lifecycleFocusTimers
  /\ activeWindows' = s.activeWindows
  /\ winboxes' = s.winboxes
  /\ focusTimeouts' = s.focusTimeouts
  /\ WinBox' = s.WinBox
  /\ openCalls' = s.openCalls
  /\ produced' = s.produced
  /\ dispatched' = s.dispatched
  /\ calls' = s.calls
  /\ emitted' = s.emitted
  /\ refreshes' = s.refreshes
  /\ bridge' = bridge       \* an App handler does not touch the BackendBridge

(***************************************************************************)
(* Binding resolver.                                                       *)
(***************************************************************************)
\* wsLastError: `${name}: ${message}` of a failed send, as its two parts; NoError is ''.
ErrorText(name, message) == [operation |-> name, message |-> message]
NoError == [operation |-> "", message |-> ""]
ThrownMessage == "binding threw"
RejectedMessage == "call rejected"

\* Diagnostics refresh: re-renders the status panel from the fields.
updateWsStatusBar(s) == [s EXCEPT !.refreshes = @ + 1]

\* A callBackend that reports a dispatch although nothing was there to call.
callBackendWith_ClaimsSent(s, name, payload, binding) ==
  LET direct == IF binding = "ok"
                  THEN [s EXCEPT !.wsBackendSendOk = @ + 1]
                ELSE IF binding = "throws"
                  THEN updateWsStatusBar(
                         [s EXCEPT !.wsBackendSendFail = @ + 1,
                                   !.wsLastError = ErrorText(name, ThrownMessage)])
                ELSE s
      viaCall == binding # "ok" /\ s.webui = "full"
      after == IF viaCall THEN [direct EXCEPT !.pendingCalls[name] = @ + 1] ELSE direct
  IN [after EXCEPT
        !.calls = Append(@, [name |-> name, payload |-> payload, binding |-> binding,
                              bridge |-> viaCall, sent |-> TRUE]),
        !.ret = TRUE]

\* The body of callBackend once the binding is resolved; s.ret is the returned boolean.
callBackendWith(s, name, payload, binding) ==
  LET direct == IF binding = "ok"
                  THEN [s EXCEPT !.wsBackendSendOk = @ + 1]
                ELSE IF binding = "throws"
                  THEN updateWsStatusBar(
                         [s EXCEPT !.wsBackendSendFail = @ + 1,
                                   !.wsLastError = ErrorText(name, ThrownMessage)])
                ELSE s
      \* the catch block does not return: a throwing binding falls through
      viaCall == binding # "ok" /\ s.webui = "full"
      sent == binding = "ok" \/ viaCall
      after == IF viaCall THEN [direct EXCEPT !.pendingCalls[name] = @ + 1] ELSE direct
  IN [after EXCEPT
        !.calls = Append(@, [name |-> name, payload |-> payload, binding |-> binding,
                              bridge |-> viaCall, sent |-> sent]),
        !.ret = sent]

\* What the resolved callable does with this payload: a callable bound as "picky"
\* throws on the lifecycle payloads of window 2 and returns on everything else.
Outcome(binding, payload) ==
  IF binding = "picky"
    THEN IF "window_id" \in DOMAIN payload /\ payload.window_id = 2 THEN "throws" ELSE "ok"
    ELSE binding

\* callBackend(name, payload)
callBackend(s, name, payload) ==
  callBackendWith(s, name, payload,
                  Outcome(resolveBackendBinding(s.globals, name), payload))

(***************************************************************************)
(* Connection monitor.                                                     *)
(***************************************************************************)
\* A report that leaves the reconnect-attempt count at zero.
reportWsStateToBackend_NoAttempts(s, state, reason) ==
  callBackend(s, "ws_state_change",
              [state |-> state, reason |-> reason,
               reconnect_attempts |-> 0,
               ws_port |-> s.wsRuntimePort, ws_port_source |-> s.wsRuntimePortSource])

reportWsStateToBackend(s, state, reason) ==
  callBackend(s, "ws_state_change",
              [state |-> state, reason |-> reason,
               reconnect_attempts |-> s.wsReconnectAttempts,
               ws_port |-> s.wsRuntimePort, ws_port_source |-> s.wsRuntimePortSource])

reportWsErrorToBackend(s, context) ==
  callBackend(s, "ws_error_report",
              [context |-> context,
               ws_port |-> s.wsRuntimePort, ws_port_source |-> s.wsRuntimePortSource])

\* A transition that records the entry but leaves the current state as it was.
transitionWsState_StaleState(s, state, reason) ==
  IF s.wsState = state /\ reason = NoReason THEN s
  ELSE
    LET cleared == IF state = "connected" THEN [s EXCEPT !.wsLastError = NoError] ELSE s
        pushed == Append(cleared.wsStateHistory, [state |-> state, reason |-> reason])
        kept == IF Len(pushed) > WsHistoryCap THEN Tail(pushed) ELSE pushed
        set == [cleared EXCEPT !.wsStateHistory = kept]
    IN reportWsStateToBackend(updateWsStatusBar(set), state, reason)

\* A transition that goes on when the state is the current one and no reason is given.
transitionWsState_NoGuard(s, state, reason) ==
  LET cleared == IF state = "connected" THEN [s EXCEPT !.wsLastError = NoError] ELSE s
      pushed == Append(cleared.wsStateHistory, [state |-> state, reason |-> reason])
      kept == IF Len(pushed) > WsHistoryCap THEN Tail(pushed) ELSE pushed
      set == [cleared EXCEPT !.wsState = state, !.wsStateHistory = kept]
  IN reportWsStateToBackend(updateWsStatusBar(set), state, reason)

transitionWsState(s, state, reason) ==
  IF s.wsState = state /\ reason = NoReason THEN s
  ELSE
    LET cleared == IF state = "connected" THEN [s EXCEPT !.wsLastError = NoError] ELSE s
        pushed == Append(cleared.wsStateHistory, [state |-> state, reason |-> reason])
        kept == IF Len(pushed) > WsHistoryCap THEN Tail(pushed) ELSE pushed
        set == [cleared EXCEPT !.wsState = state, !.wsStateHistory = kept]
    IN reportWsStateToBackend(updateWsStatusBar(set), state, reason)

\* A JavaScript number Number(<input>): an integer, a number with a fraction (value:
\* its floor) or NaN.
Integer(n) == [kind |-> "integer", value |-> n]
Fraction(n) == [kind |-> "fraction", value |-> n]
NaN == [kind |-> "NaN", value |-> 0]

\* Number.isInteger(v) && v > 0 && v <= 65535
IsValidPort(v) == v.kind = "integer" /\ v.value > 0 /\ v.value <= MaxPort

resolveWsRuntimePort(s, injected, locationPort) ==
  IF IsValidPort(injected)
    THEN [s EXCEPT !.wsRuntimePort = injected.value, !.wsRuntimePortSource = "injected"]
  ELSE IF IsValidPort(locationPort)
    THEN [s EXCEPT !.wsRuntimePort = locationPort.value, !.wsRuntimePortSource = "location"]
  ELSE [s EXCEPT !.wsRuntimePort = Null, !.wsRuntimePortSource = "unknown"]

\* setupConnectionMonitoring(), after startBackendBridge()'s first flush.  Inputs:
\* Number(window.__WEBUI_WS_PORT__), Number(window.location.port), and what
\* webui.setEventCallback does ("absent": it or webui.event is missing).
\* A bridge detection that takes the bridge object for present.
detectBridge_TakesPresent(s) ==
  transitionWsState(s, "connected", "webui bridge object detected")

\* ... its part after the port is resolved: bridge detection (4143-4147).
detectBridge(s) ==
  IF s.webui = "absent"
    THEN transitionWsState(s, "bridge_missing", "window.webui not found")
    ELSE transitionWsState(s, "connected", "webui bridge object detected")

\* ... and the registration of the event callback (4149-4168).
registerEventCallback(s, setEventCallback) ==
  IF s.webui # "absent" /\ setEventCallback = "ok"
    THEN [s EXCEPT !.eventCallback = TRUE]
  ELSE IF s.webui # "absent" /\ setEventCallback = "throws"
    THEN reportWsErrorToBackend(
           transitionWsState(s, "error", "setEventCallback failed"), "setEventCallback")
  ELSE s

\* A monitor that gives up on the heartbeat when the registration has failed.
startHeartbeat_UnlessError(s) ==
  IF s.wsState = "error" THEN s ELSE [s EXCEPT !.wsHeartbeatTimer = HeartbeatIntervalMs]

\* ... and the heartbeat timer (4177-4203): clearInterval of a running one, then
\* setInterval.
startHeartbeat(s) == [s EXCEPT !.wsHeartbeatTimer = HeartbeatIntervalMs]

setupConnectionMonitoring(s, injected, locationPort, setEventCallback) ==
  startHeartbeat(
    registerEventCallback(
      detectBridge(
        updateWsStatusBar(
          resolveWsRuntimePort(transitionWsState(s, "initializing", "App mounted"),
                               injected, locationPort))),
      setEventCallback))

\* The handler registered with webui.setEventCallback.
onWebuiEvent(s, evt) ==
  IF evt = "CONNECTED"
    THEN transitionWsState([s EXCEPT !.wsReconnectAttempts = 0],
                           "connected", "webui CONNECTED event")
  ELSE IF evt = "DISCONNECTED"
    THEN transitionWsState([s EXCEPT !.wsReconnectAttempts = @ + 1],
                           "disconnected", "webui DISCONNECTED event")
  ELSE s

\* An offline listener that makes its transition without counting an attempt.
onOffline_NoCount(s) == transitionWsState(s, "reconnecting", "Browser offline")

onOffline(s) ==
  transitionWsState([s EXCEPT !.wsReconnectAttempts = @ + 1], "reconnecting", "Browser offline")

onOnline(s) == transitionWsState(s, "connected", "Browser online")

\* The heartbeat callback after its transition: the ws_heartbeat report (4192-4202).
heartbeatReport(s, connectedByApi) ==
  updateWsStatusBar(
    callBackend(s, "ws_heartbeat",
                [state |-> s.wsState, connected |-> connectedByApi,
                 queued_lifecycle_events |-> Len(s.lifecycleQueue),
                 ws_port |-> s.wsRuntimePort,
                 ws_port_source |-> s.wsRuntimePortSource]))

\* A heartbeat that sends its report before it makes its transition.
onHeartbeat_ReportsFirst(s, connectedByApi) ==
  IF ~connectedByApi
    THEN transitionWsState(
           [heartbeatReport(s, connectedByApi) EXCEPT !.wsReconnectAttempts = @ + 1],
           "reconnecting", "Heartbeat indicates disconnected bridge")
  ELSE IF s.wsState # "connected"
    THEN transitionWsState(heartbeatReport(s, connectedByApi), "connected",
                           "Heartbeat recovered")
  ELSE heartbeatReport(s, connectedByApi)

\* A heartbeat that reports a positive probe without recovering the state.
onHeartbeat_SkipsRecovery(s, connectedByApi) ==
  heartbeatReport(
    IF ~connectedByApi
      THEN transitionWsState([s EXCEPT !.wsReconnectAttempts = @ + 1],
                             "reconnecting", "Heartbeat indicates disconnected bridge")
    ELSE s,
    connectedByApi)

\* One run of the 1500 ms interval callback; connectedByApi is the probe's result.
onHeartbeat(s, connectedByApi) ==
  heartbeatReport(
    IF ~connectedByApi
      THEN transitionWsState([s EXCEPT !.wsReconnectAttempts = @ + 1],
                             "reconnecting", "Heartbeat indicates disconnected bridge")
    ELSE IF s.wsState # "connected"
      THEN transitionWsState(s, "connected", "Heartbeat recovered")
    ELSE s,
    connectedByApi)

\* A 'webui_runtime_port' listener that stores the port and leaves the source.
onRuntimePort_KeepsSource(s, candidate) ==
  IF IsValidPort(candidate)
    THEN updateWsStatusBar([s EXCEPT !.wsRuntimePort = candidate.value])
    ELSE s

\* A 'webui_runtime_port' listener that takes every candidate.
onRuntimePort_Unchecked(s, candidate) ==
  updateWsStatusBar([s EXCEPT !.wsRuntimePort = candidate.value,
                              !.wsRuntimePortSource = "injected"])

\* The 'webui_runtime_port' listener; candidate is Number(event.detail?.port).
onRuntimePort(s, candidate) ==
  IF IsValidPort(candidate)
    THEN updateWsStatusBar([s EXCEPT !.wsRuntimePort = candidate.value,
                                     !.wsRuntimePortSource = "injected"])
    ELSE s

\* Continuations (.then, .catch) of a promise that webui.call(name, ...) returned.
onCallResolved(s, name) ==
  updateWsStatusBar([s EXCEPT !.wsBackendSendOk = @ + 1,
                              !.pendingCalls[name] = @ - 1])

\* A rejection handler that takes the rejection for a lost connection.
onCallRejected_Disconnects(s, name) ==
  transitionWsState(
    updateWsStatusBar([s EXCEPT !.wsBackendSendFail = @ + 1,
                                !.wsLastError = ErrorText(name, RejectedMessage),
                                !.pendingCalls[name] = @ - 1]),
    "disconnected", "backend send failed")

onCallRejected(s, name) ==
  updateWsStatusBar([s EXCEPT !.wsBackendSendFail = @ + 1,
                              !.wsLastError = ErrorText(name, RejectedMessage),
                              !.pendingCalls[name] = @ - 1])

(***************************************************************************)
(* Lifecycle event queue.                                                  *)
(***************************************************************************)
\* r being the App after callBackend: a call that returned true dispatched the payload.
noteDispatched(r, payload) ==
  IF r.ret THEN [r EXCEPT !.dispatched = Append(@, payload)] ELSE r

sendLifecycleToBackend(s, payload) ==
  noteDispatched(callBackend(s, "log_window_lifecycle", payload), payload)

\* A flush that puts every payload back, sent or not.
keepUnsent_KeepsAll(r, payload) == [r EXCEPT !.lifecycleQueue = Append(@, payload)]

\* A flush that does not put an unsent payload back.
keepUnsent_Forgets(r, payload) == r

\* A flush that puts an unsent payload back in front of the queue.
keepUnsent_InFront(r, payload) ==
  IF ~r.ret THEN [r EXCEPT !.lifecycleQueue = <<payload>> \o @] ELSE r

\* if (!sent) this.lifecycleQueue.push(payload), r being the App after the send.
keepUnsent(r, payload) ==
  IF ~r.ret THEN [r EXCEPT !.lifecycleQueue = Append(@, payload)] ELSE r

\* The loop of flushLifecycleQueue over pending[lo..hi], in order.  The range is
\* walked in two halves, the second from the state the first one leaves, so that
\* the evaluation nests no deeper than the logarithm of its length.
RECURSIVE FlushPending(_, _, _, _)
FlushPending(s, pending, lo, hi) ==
  IF lo > hi THEN s
  ELSE IF lo = hi
    THEN keepUnsent(sendLifecycleToBackend(s, pending[lo]), pending[lo])
  ELSE CHOOSE r \in {FlushPending(m, pending, (lo + hi) \div 2 + 1, hi) :
                        m \in {FlushPending(s, pending, lo, (lo + hi) \div 2)}} : TRUE

\* A flush that sends nothing.
flushLifecycleQueue_Idle(s) == s

flushLifecycleQueue(s) ==
  IF Len(s.lifecycleQueue) = 0 THEN s
  ELSE FlushPending([s EXCEPT !.lifecycleQueue = <<>>], s.lifecycleQueue,
                    1, Len(s.lifecycleQueue))

\* if (!sent) { push(payload); if (length > 256) shift() }, r being the App after the send.
\* A full queue that turns the new payload away instead of evicting the oldest one.
queueUnsent_DropsNewest(r, payload) ==
  IF r.ret THEN r
  ELSE IF Len(r.lifecycleQueue) + 1 > LifecycleQueueCap THEN r
  ELSE [r EXCEPT !.lifecycleQueue = Append(@, payload)]

queueUnsent(r, payload) ==
  IF r.ret THEN r
  ELSE IF Len(r.lifecycleQueue) + 1 > LifecycleQueueCap
    THEN [r EXCEPT !.lifecycleQueue = Tail(Append(@, payload))]
  ELSE [r EXCEPT !.lifecycleQueue = Append(@, payload)]

\* The part of emitWindowLifecycle from the logging of the payload on (4388-4397).
\* A payload is an object of its own: `serial` stands for its identity.
emitPayload(s, payload) ==
  queueUnsent(
    sendLifecycleToBackend(
      [s EXCEPT !.produced = @ + 1, !.emitted = Append(@, payload)],
      payload),
    payload)

\* A duplicate check whose window includes its end.
emitWindowLifecycle_Inclusive(s, state, id, title, t) ==
  IF /\ id \in DOMAIN s.lifecycleLastSent
     /\ s.lifecycleLastSent[id].state = state
     /\ t + s.elapsed - s.lifecycleLastSent[id].ts <= DedupWindowMs
  THEN s
  ELSE emitPayload(
         [s EXCEPT !.lifecycleLastSent =
                      [k \in DOMAIN @ \cup {id} |->
                         IF k = id THEN [state |-> state, ts |-> t + s.elapsed]
                         ELSE @[k]],
                   !.elapsed = @ + s.ahead, !.ahead = 0],
         [event |-> state, window_id |-> id, title |-> title,
          timestamp |-> t + s.elapsed + s.ahead, serial |-> s.produced + 1])

\* emitWindowLifecycle(state, {id, title}) in a handler that began when the clock
\* read t.  The call reads the clock twice: Date.now() (4374), for the duplicate
\* check and lifecycleLastSent, gives t + s.elapsed; new Date() (4385), for the
\* payload's timestamp, gives s.ahead milliseconds more.
emitWindowLifecycle(s, state, id, title, t) ==
  IF /\ id \in DOMAIN s.lifecycleLastSent
     /\ s.lifecycleLastSent[id].state = state
     /\ t + s.elapsed - s.lifecycleLastSent[id].ts < DedupWindowMs
  THEN s
  ELSE emitPayload(
         [s EXCEPT !.lifecycleLastSent =
                      [k \in DOMAIN @ \cup {id} |->
                         IF k = id THEN [state |-> state, ts |-> t + s.elapsed]
                         ELSE @[k]],
                   !.elapsed = @ + s.ahead, !.ahead = 0],
         [event |-> state, window_id |-> id, title |-> title,
          timestamp |-> t + s.elapsed + s.ahead, serial |-> s.produced + 1])

\* A debounce that lets a pending timer stand when a new request arrives.
emitFocusedLifecycle_KeepsPending(s, id, title, t) ==
  IF id \in DOMAIN s.lifecycleFocusTimers THEN s
  ELSE [s EXCEPT !.lifecycleFocusTimers =
                   [k \in DOMAIN @ \cup {id} |->
                      IF k = id
                        THEN [due |-> t + s.elapsed + FocusDebounceMs, title |-> title]
                      ELSE @[k]]]

\* emitFocusedLifecycle({id, title}) in a handler that began at t: (re)arms the
\* window's debounce timer, 120 ms from the call.
emitFocusedLifecycle(s, id, title, t) ==
  [s EXCEPT !.lifecycleFocusTimers =
              [k \in DOMAIN @ \cup {id} |->
                 IF k = id THEN [due |-> t + s.elapsed + FocusDebounceMs, title |-> title]
                 ELSE @[k]]]

\* The debounce timer's callback.
onFocusTimer(s, id, t) ==
  LET r == emitWindowLifecycle(s, "active", id, s.lifecycleFocusTimers[id].title, t)
  IN [r EXCEPT !.lifecycleFocusTimers = [k \in DOMAIN @ \ {id} |-> @[k]]]

(***************************************************************************)
(* Window registry: the callbacks openWindow hands to the window manager   *)
(* for the window it creates (windowId and title are the closure's).       *)
(***************************************************************************)
MapWindows(s, F(_)) ==
  [s EXCEPT !.activeWindows = [i \in 1..Len(@) |-> F(@[i])]]

\* A minimize callback that leaves `active` as it was.
onminimize_KeepsActive(s, windowId, title, t) ==
  LET F(w) == IF w.id = windowId THEN [w EXCEPT !.minimized = TRUE] ELSE w
  IN emitWindowLifecycle(MapWindows(s, F), "minimized", windowId, title, t)

onminimize(s, windowId, title, t) ==
  LET F(w) == IF w.id = windowId THEN [w EXCEPT !.minimized = TRUE, !.active = FALSE] ELSE w
  IN emitWindowLifecycle(MapWindows(s, F), "minimized", windowId, title, t)

onrestore(s, windowId, title, t) ==
  LET F(w) == [w EXCEPT !.minimized = IF w.id = windowId THEN FALSE ELSE @,
                        !.maximized = IF w.id = windowId THEN FALSE ELSE @,
                        !.active = (w.id = windowId)]
  IN emitWindowLifecycle(MapWindows(s, F), "restored", windowId, title, t)

onmaximize(s, windowId, title, t) ==
  LET F(w) == [w EXCEPT !.maximized = (w.id = windowId),
                        !.active = (w.id = windowId),
                        !.minimized = IF w.id = windowId THEN FALSE ELSE @]
  IN emitFocusedLifecycle(MapWindows(s, F), windowId, title, t)

\* A focus callback that clears `minimized` but leaves `active` as it was.
onfocus_KeepsActive(s, windowId, title, t) ==
  LET F(w) == [w EXCEPT !.minimized = IF w.id = windowId THEN FALSE ELSE @]
  IN emitFocusedLifecycle(MapWindows(s, F), windowId, title, t)

onfocus(s, windowId, title, t) ==
  LET F(w) == [w EXCEPT !.active = (w.id = windowId),
                        !.minimized = IF w.id = windowId THEN FALSE ELSE @]
  IN emitFocusedLifecycle(MapWindows(s, F), windowId, title, t)

onblur(s, windowId) ==
  LET F(w) == IF w.id = windowId THEN [w EXCEPT !.active = FALSE] ELSE w
  IN MapWindows(s, F)

FilterWindows(ws, windowId) == SelectSeq(ws, LAMBDA w : w.id # windowId)

onclose(s, windowId, title, t) ==
  LET cancelled == [s EXCEPT !.lifecycleFocusTimers = [k \in DOMAIN @ \ {windowId} |-> @[k]]]
      r == emitWindowLifecycle(cancelled, "closed", windowId, title, t)
  IN [r EXCEPT !.activeWindows = FilterWindows(@, windowId)]

(***************************************************************************)
(* The window manager (WinBox), an external collaborator.  An instance is  *)
(* known to the App as winboxInstance; `winboxes` numbers the instances    *)
(* created so far.  Contract assumed of it: a method called on a live      *)
(* instance runs the matching callback of that instance before it returns, *)
(* creating a window focuses it, and a closed instance runs no callback.   *)
(***************************************************************************)
WinBoxFocus(s, h, t) ==
  IF s.winboxes[h].alive THEN onfocus(s, s.winboxes[h].id, s.winboxes[h].title, t) ELSE s

WinBoxRestore(s, h, t) ==
  IF s.winboxes[h].alive THEN onrestore(s, s.winboxes[h].id, s.winboxes[h].title, t) ELSE s

WinBoxMinimize(s, h, t) ==
  IF s.winboxes[h].alive THEN onminimize(s, s.winboxes[h].id, s.winboxes[h].title, t) ELSE s

WinBoxClose(s, h, t) ==
  IF s.winboxes[h].alive
    THEN [onclose(s, s.winboxes[h].id, s.winboxes[h].title, t)
            EXCEPT !.winboxes[h].alive = FALSE]
    ELSE s

\* new window.WinBox(options) for the callbacks of (windowId, title).
WinBoxCreate(s, windowId, title, t) ==
  LET h == Len(s.winboxes) + 1
      made == [s EXCEPT !.winboxes = Append(@, [id |-> windowId, title |-> title,
                                                alive |-> TRUE])]
  IN WinBoxFocus(made, h, t)

(***************************************************************************)
(* Window registry: the App's own operations.                              *)
(***************************************************************************)
\* activeWindows.find(pred): the index of the first match, 0 for undefined.
FindTitle(ws, title) ==
  LET hits == {i \in 1..Len(ws) : ws[i].title = title}
  IN IF hits = {} THEN 0 ELSE CHOOSE i \in hits : \A j \in hits : i <= j

FindId(ws, id) ==
  LET hits == {i \in 1..Len(ws) : ws[i].id = id}
  IN IF hits = {} THEN 0 ELSE CHOOSE i \in hits : \A j \in hits : i <= j

\* 'win-' + Date.now(): the id is the creation time (the prefix is the same for all).
WindowId(t) == t

\* openWindow after new WinBox(...) returned (4521-4533); the instance is the last
\* one created.
registerWindow(s, windowId, title, t) ==
  LET windowInfo == [id |-> windowId, title |-> title, minimized |-> FALSE,
                     active |-> TRUE, maximized |-> FALSE, winbox |-> Len(s.winboxes)]
      F(w) == [w EXCEPT !.active = FALSE]
  IN emitWindowLifecycle([MapWindows(s, F) EXCEPT !.activeWindows = Append(@, windowInfo)],
                         "opened", windowId, title, t)

\* openWindow from its second test of window.WinBox on (4416-4533), the window
\* manager being loaded.
openWindow(s, title, t) ==
  LET i == FindTitle(s.activeWindows, title)
  IN IF i # 0
       THEN
         LET existingWindow == s.activeWindows[i]
             h == existingWindow.winbox
             \* existingWindow.minimized = false writes the object found; a callback
             \* has replaced the array by copies unless the instance ran none.
             restored ==
               IF ~existingWindow.minimized THEN s
               ELSE IF s.winboxes[h].alive THEN WinBoxRestore(s, h, t)
               ELSE [s EXCEPT !.activeWindows[i].minimized = FALSE]
         IN WinBoxFocus(restored, h, t)
       ELSE registerWindow(WinBoxCreate(s, WindowId(t + s.elapsed), title, t),
                           WindowId(t + s.elapsed), title, t)

\* ensureWinBoxLoaded(): window.WinBox = WinBox, unless it is set.
ensureWinBoxLoaded(s) == [s EXCEPT !.WinBox = TRUE]

\* An openWindow that looks for the title before it waits, and creates the window
\* when it resumes.
openWindowResume_FoundBefore(s, t) ==
  LET title == Head(s.openCalls)
      rest == [s EXCEPT !.openCalls = Tail(@)]
  IN registerWindow(WinBoxCreate(rest, WindowId(t + s.elapsed), title, t),
                    WindowId(t + s.elapsed), title, t)

\* openWindow(title, ...) up to its await (4413-4415): with window.WinBox missing
\* the call is suspended after ensureWinBoxLoaded() has run; otherwise it goes on.
openWindowCall(s, title, t) ==
  IF ~s.WinBox
    THEN [ensureWinBoxLoaded(s) EXCEPT !.openCalls = Append(@, title)]
    ELSE openWindow(s, title, t)

\* The oldest suspended call resumes.
openWindowResume(s, t) ==
  openWindow([s EXCEPT !.openCalls = Tail(@)], Head(s.openCalls), t)

\* focusWindow(windowInfo), windowInfo being activeWindows[i].
focusWindow(s, i, t) ==
  LET windowInfo == s.activeWindows[i]
  IN IF windowInfo.minimized
       THEN
         LET restored == WinBoxRestore(s, windowInfo.winbox, t)
             F(w) == IF w.id = windowInfo.id THEN [w EXCEPT !.minimized = FALSE] ELSE w
         IN [MapWindows(restored, F) EXCEPT
               !.focusTimeouts = Append(@, [winbox |-> windowInfo.winbox,
                                            id |-> windowInfo.id,
                                            title |-> windowInfo.title])]
       ELSE emitWindowLifecycle(WinBoxFocus(s, windowInfo.winbox, t),
                                "focused", windowInfo.id, windowInfo.title, t)

\* The setTimeout(..., 0) callback of focusWindow.  focus() on a closed instance is
\* outside the window manager's contract: it returns or throws (deadFocus).
onFocusTimeout(s, entry, deadFocus, t) ==
  IF ~s.winboxes[entry.winbox].alive /\ deadFocus = "throws" THEN s
  ELSE emitWindowLifecycle(WinBoxFocus(s, entry.winbox, t), "focused", entry.id, entry.title, t)

closeWindow(s, i, t) ==
  LET windowInfo == s.activeWindows[i]
      closed == WinBoxClose(s, windowInfo.winbox, t)
  IN [closed EXCEPT !.activeWindows = FilterWindows(@, windowInfo.id)]

\* The forEach loops run over the array as it was when the loop started.
RECURSIVE CloseEach(_, _, _)
CloseEach(s, snapshot, t) ==
  IF snapshot = <<>> THEN s
  ELSE CloseEach(WinBoxClose(s, Head(snapshot).winbox, t), Tail(snapshot), t)

closeAllWindows(s, t) ==
  [CloseEach(s, s.activeWindows, t) EXCEPT !.activeWindows = <<>>]

RECURSIVE MinimizeEach(_, _, _)
MinimizeEach(s, snapshot, t) ==
  IF snapshot = <<>> THEN s
  ELSE MinimizeEach(IF ~Head(snapshot).minimized
                      THEN WinBoxMinimize(s, Head(snapshot).winbox, t) ELSE s,
                    Tail(snapshot), t)

\* A hideAllWindows that marks the records without minimizing the instances.
hideAllWindows_MarksOnly(s, t) ==
  LET F(w) == IF ~w.minimized
                THEN [w EXCEPT !.minimized = TRUE, !.maximized = FALSE, !.active = FALSE]
                ELSE w
  IN MapWindows(s, F)

hideAllWindows(s, t) ==
  LET F(w) == IF ~w.minimized
                THEN [w EXCEPT !.minimized = TRUE, !.maximized = FALSE, !.active = FALSE]
                ELSE w
  IN MapWindows(MinimizeEach(s, s.activeWindows, t), F)

(***************************************************************************)
(* BackendBridge (frontend/src/app/backend-bridge.ts): a second holder of  *)
(* the connection state.  b.callbacks: setCallbacks() has installed the    *)
(* status-bar and report functions; b.refreshed and b.reported observe the *)
(* calls of the last method to them, b.emitted the payloads it produced.    *)
(***************************************************************************)
\* wsStateHistory.slice(-n): the last n entries.
SliceLast(seq, n) ==
  IF Len(seq) <= n THEN seq ELSE SubSeq(seq, Len(seq) - n + 1, Len(seq))

JsNull == [kind |-> "null", value |-> 0]   \* null, among JavaScript numbers

FreshBridge ==
  [ wsState |-> "initializing", wsStateHistory |-> <<>>, callbacks |-> FALSE,
    wsRuntimePort |-> JsNull, wsRuntimePortSource |-> "unknown",
    wsHeartbeatTimer |-> Null, wsBackendSendOk |-> 0, wsBackendSendFail |-> 0,
    wsLastError |-> NoError, pendingCalls |-> 0,
    lifecycleQueue |-> <<>>, lifecycleLastSent |-> [k \in {} |-> k],
    lifecycleFlushTimer |-> Null, lifecycleFocusTimers |-> [k \in {} |-> k],
    \* the window's timer table, for the handles this object holds: is the
    \* interval running, and the window ids whose timeout is pending
    flushLive |-> FALSE, focusLive |-> {},
    \* observation
    destroyed |-> FALSE, dispatched |-> <<>>, ret |-> FALSE,
    refreshed |-> 0, reported |-> <<>>, emitted |-> <<>>,
    \* the clock within the method, as in the App
    elapsed |-> 0, ahead |-> 0 ]

setCallbacks(b) == [b EXCEPT !.callbacks = TRUE]

\* if (v): a number is truthy unless it is 0 or NaN; undefined is not.
Truthy(v) == v.kind # "NaN" /\ ~(v.kind = "integer" /\ v.value = 0)

\* Texts are sequences of characters.
DigitChars == <<"0", "1", "2", "3", "4", "5", "6", "7", "8", "9">>
IsDigit(c) == \E d \in 1..10 : DigitChars[d] = c
DigitValue(c) == (CHOOSE d \in 1..10 : DigitChars[d] = c) - 1

\* The white space parseInt skips: space, tab, line feed, form feed, carriage
\* return, and (under these names) the vertical tab, the no-break space, the
\* byte order mark, the line and paragraph separators and the space separators.
WhiteSpaceChars ==
  { " ", "\t", "\n", "\f", "\r", "U+000B", "U+00A0", "U+FEFF", "U+2028", "U+2029",
    "U+1680", "U+2000", "U+2001", "U+2002", "U+2003", "U+2004", "U+2005", "U+2006",
    "U+2007", "U+2008", "U+2009", "U+200A", "U+202F", "U+205F", "U+3000" }

\* The text without its leading white space.
RECURSIVE TrimStart(_)
TrimStart(cs) ==
  IF cs # <<>> /\ Head(cs) \in WhiteSpaceChars THEN TrimStart(Tail(cs)) ELSE cs

\* How many digits the text begins with, and the number a run of digits denotes.
LeadingDigits(cs) ==
  CHOOSE n \in 0..Len(cs) :
    /\ \A i \in 1..n : IsDigit(cs[i])
    /\ n = Len(cs) \/ ~IsDigit(cs[n + 1])

RECURSIVE DigitsValue(_)
DigitsValue(ds) ==
  IF ds = <<>> THEN 0
  ELSE DigitsValue(SubSeq(ds, 1, Len(ds) - 1)) * 10 + DigitValue(ds[Len(ds)])

\* parseInt(text, 10): white space is skipped, then a sign and the digits that
\* follow are read, up to the first character that is no digit; NaN without a digit.
parseInt(text) ==
  LET trimmed == TrimStart(text)
      signed == trimmed # <<>> /\ Head(trimmed) \in {"-", "+"}
      body == IF signed THEN Tail(trimmed) ELSE trimmed
      n == LeadingDigits(body)
  IN IF n = 0 THEN NaN
     ELSE IF Head(trimmed) = "-" THEN Integer(0 - DigitsValue(SubSeq(body, 1, n)))
     ELSE Integer(DigitsValue(SubSeq(body, 1, n)))

\* BackendBridge.resolveWsRuntimePort().  fromWindow is window.__WEBUI_WS_PORT__
\* (NaN: undefined); fromUrl is the text of the ws_port query parameter (empty:
\* the parameter is missing or empty, null and '' both being falsy).
BackendBridge_resolveWsRuntimePort(b, fromWindow, fromUrl) ==
  IF Truthy(fromWindow)
    THEN [b EXCEPT !.wsRuntimePort = fromWindow, !.wsRuntimePortSource = "injected"]
  ELSE IF fromUrl # <<>> /\ parseInt(fromUrl).kind # "NaN"
    THEN [b EXCEPT !.wsRuntimePort = parseInt(fromUrl), !.wsRuntimePortSource = "location"]
  ELSE [b EXCEPT !.wsRuntimePortSource = "unknown"]

transitionState(b, newState, reason) ==
  IF b.wsState = newState THEN b
  ELSE
    LET pushed == Append(b.wsStateHistory, [state |-> newState, reason |-> reason])
        kept == IF Len(pushed) > BridgeHistoryCap
                  THEN SliceLast(pushed, BridgeHistoryKeep) ELSE pushed
        set == [b EXCEPT !.wsState = newState, !.wsStateHistory = kept]
    IN IF b.callbacks
         THEN [set EXCEPT !.refreshed = @ + 1,
                          !.reported = Append(@, [state |-> newState, reason |-> reason])]
         ELSE set

\* BackendBridge.emitWindowLifecycle(state, {id, title}) in a method that began
\* when the clock read t: Date.now() (217) gives t + b.elapsed, new Date() (228)
\* b.ahead milliseconds more.
BackendBridge_emitWindowLifecycle(b, state, id, title, t) ==
  IF /\ id \in DOMAIN b.lifecycleLastSent
     /\ b.lifecycleLastSent[id].state = state
     /\ t + b.elapsed - b.lifecycleLastSent[id].ts < BridgeDedupWindowMs
  THEN b
  ELSE
    LET payload == [event |-> state, window_id |-> id, title |-> title,
                    timestamp |-> t + b.elapsed + b.ahead]
    IN [b EXCEPT
          !.lifecycleLastSent =
             [k \in DOMAIN @ \cup {id} |->
                IF k = id THEN [state |-> state, ts |-> t + b.elapsed] ELSE @[k]],
          !.lifecycleQueue = Append(@, payload),
          !.emitted = Append(@, payload),
          !.elapsed = @ + b.ahead, !.ahead = 0]

\* BackendBridge.callBackend(name, payload) in the registry (w, g): like the App's,
\* the catch block falls through to webui.call.
BackendBridge_afterBinding(b, name, binding) ==
  IF binding = "ok" THEN [b EXCEPT !.wsBackendSendOk = @ + 1]
  ELSE IF binding = "throws"
    THEN [b EXCEPT !.wsBackendSendFail = @ + 1,
                   !.wsLastError = ErrorText(name, ThrownMessage),
                   !.refreshed = IF b.callbacks THEN @ + 1 ELSE @]
  ELSE b

BackendBridge_callBackend(b, w, g, name, payload) ==
  LET binding == Outcome(resolveBackendBinding(g, name), payload)
  IN IF binding = "ok"
       THEN [BackendBridge_afterBinding(b, name, binding) EXCEPT
               !.ret = TRUE, !.dispatched = Append(@, payload)]
     ELSE IF w = "full"
       THEN [BackendBridge_afterBinding(b, name, binding) EXCEPT
               !.pendingCalls = @ + 1,
               !.ret = TRUE, !.dispatched = Append(@, payload)]
     ELSE [BackendBridge_afterBinding(b, name, binding) EXCEPT !.ret = FALSE]

\* Continuations (.then, .catch) of the promise webui.call(name, ...) returned.
BackendBridge_onCallResolved(b) ==
  [b EXCEPT !.wsBackendSendOk = @ + 1, !.pendingCalls = @ - 1,
            !.refreshed = IF b.callbacks THEN @ + 1 ELSE @]

BackendBridge_onCallRejected(b, name) ==
  [b EXCEPT !.wsBackendSendFail = @ + 1, !.pendingCalls = @ - 1,
            !.wsLastError = ErrorText(name, RejectedMessage),
            !.refreshed = IF b.callbacks THEN @ + 1 ELSE @]

\* BackendBridge.sendLifecycleToBackend(payload), a public method.
BackendBridge_sendLifecycleToBackend(b, w, g, payload) ==
  BackendBridge_callBackend(b, w, g, "log_window_lifecycle", payload)

BackendBridge_keepUnsent(r, payload) ==
  IF ~r.ret THEN [r EXCEPT !.lifecycleQueue = Append(@, payload)] ELSE r

\* The loop of BackendBridge.flushLifecycleQueue over pending[lo..hi], in order,
\* walked in two halves like the App's.
RECURSIVE BackendBridge_FlushPending(_, _, _, _, _, _)
BackendBridge_FlushPending(b, w, g, pending, lo, hi) ==
  IF lo > hi THEN b
  ELSE IF lo = hi
    THEN BackendBridge_keepUnsent(
           BackendBridge_sendLifecycleToBackend(b, w, g, pending[lo]), pending[lo])
  ELSE CHOOSE r \in {BackendBridge_FlushPending(m, w, g, pending, (lo + hi) \div 2 + 1, hi) :
                        m \in {BackendBridge_FlushPending(b, w, g, pending, lo,
                                                           (lo + hi) \div 2)}} : TRUE

BackendBridge_flushLifecycleQueue(b, w, g) ==
  IF b.lifecycleQueue = <<>> THEN b
  ELSE BackendBridge_FlushPending([b EXCEPT !.lifecycleQueue = <<>>], w, g,
                                  b.lifecycleQueue, 1, Len(b.lifecycleQueue))

\* BackendBridge.start(): a first flush, then the flush timer.
BackendBridge_start(b, w, g) ==
  [BackendBridge_flushLifecycleQueue(b, w, g) EXCEPT
     !.lifecycleFlushTimer = FlushIntervalMs, !.flushLive = TRUE]

\* BackendBridge.emitFocusedLifecycle({id, title}) at time t.
BackendBridge_emitFocusedLifecycle(b, id, title, t) ==
  [b EXCEPT !.lifecycleFocusTimers =
              [k \in DOMAIN @ \cup {id} |->
                 IF k = id THEN [due |-> t + b.elapsed + BridgeFocusDebounceMs,
                                 title |-> title]
                 ELSE @[k]],
            !.focusLive = @ \cup {id}]

\* The callback of its timeout.
BackendBridge_onFocusTimer(b, id, t) ==
  [BackendBridge_emitWindowLifecycle(b, "focused", id, b.lifecycleFocusTimers[id].title, t)
     EXCEPT !.lifecycleFocusTimers = [k \in DOMAIN @ \ {id} |-> @[k]],
            !.focusLive = @ \ {id}]

\* BackendBridge.destroy(): clearInterval of the flush timer, clearTimeout of
\* every entry of lifecycleFocusTimers; the fields keep the stale handles.
BackendBridge_destroy(b) ==
  [b EXCEPT !.flushLive = IF b.lifecycleFlushTimer # Null THEN FALSE ELSE @,
            !.focusLive = @ \ DOMAIN b.lifecycleFocusTimers,
            !.destroyed = TRUE]

\* startBackendBridge(): a first flush, then the flush timer (clearInterval of a
\* running one, then setInterval).
startBackendBridge(s) ==
  [flushLifecycleQueue(s) EXCEPT !.lifecycleFlushTimer = FlushIntervalMs]

\* mount(): the bridge is started, then the monitor is set up.
mount(s, injected, locationPort, setEventCallback) ==
  setupConnectionMonitoring(startBackendBridge(s), injected, locationPort, setEventCallback)

(***************************************************************************)
(* Initial state: the App as constructed, in some environment.             *)
(***************************************************************************)
\* Configurations of the global registry: the operations bound under their literal
\* (snake_case) name or their camelCase name, to callables that return or throw.
Unbound == [g \in GlobalNames |-> "absent"]
BoundLiteral(mode) ==
  [g \in GlobalNames |-> IF \E n \in OperationNames : g = Chars(n) THEN mode ELSE "absent"]
BoundCamel(mode) ==
  [g \in GlobalNames |-> IF \E n \in OperationNames : g = ToCamel(Chars(n)) THEN mode
                         ELSE "absent"]
BackendConfigs == {Unbound, BoundCamel("ok"), BoundLiteral("throws")}
WebuiStates == {"absent", "nocall", "full"}

PortInputs == {NaN, Fraction(8080), Integer(0), Integer(8080), Integer(65536)}

\* Texts of the ws_port query parameter: none, numerals within and outside the
\* port range, and texts that begin like a number.
UrlTexts ==
  { <<>>, <<"8", "0", "8", "0">>, <<"0">>, <<"6", "5", "5", "3", "6">>,
    <<"1", "2", "a", "b", "c">>, <<"-", "1", ".", "5">>, <<"1", "e", "3">>,
    <<"a", "b", "c">>, <<" ", "4", "2">>, <<"\t", "8", "0", "8", "0">> }

EmptyMap == [k \in {} |-> k]

Fresh ==
  [ webui |-> "absent", globals |-> Unbound,
    wsState |-> "initializing", wsStateHistory |-> <<>>,
    wsReconnectAttempts |-> 0, wsLastError |-> NoError,
    wsBackendSendOk |-> 0, wsBackendSendFail |-> 0,
    wsRuntimePort |-> Null, wsRuntimePortSource |-> "unknown",
    pendingCalls |-> [n \in OperationNames |-> 0], eventCallback |-> FALSE,
    wsHeartbeatTimer |-> Null, lifecycleFlushTimer |-> Null,
    lifecycleQueue |-> <<>>, lifecycleLastSent |-> EmptyMap,
    lifecycleFocusTimers |-> EmptyMap,
    activeWindows |-> <<>>, winboxes |-> <<>>, focusTimeouts |-> <<>>,
    WinBox |-> FALSE, openCalls |-> <<>>,
    produced |-> 0, dispatched |-> <<>>, calls |-> <<>>, emitted |-> <<>>, refreshes |-> 0, ret |-> FALSE,
    elapsed |-> 0, ahead |-> 0 ]

\* The variables hold the fields of s.
Holds(s) ==
  /\ webui = s.webui
  /\ globals = s.globals
  /\ wsState = s.wsState
  /\ wsStateHistory = s.wsStateHistory
  /\ wsReconnectAttempts = s.wsReconnectAttempts
  /\ wsLastError = s.wsLastError
  /\ wsBackendSendOk = s.wsBackendSendOk
  /\ wsBackendSendFail = s.wsBackendSendFail
  /\ wsRuntimePort = s.wsRuntimePort
  /\ wsRuntimePortSource = s.wsRuntimePortSource
  /\ pendingCalls = s.pendingCalls
  /\ eventCallback = s.eventCallback
  /\ wsHeartbeatTimer = s.wsHeartbeatTimer
  /\ lifecycleFlushTimer = s.lifecycleFlushTimer
  /\ lifecycleQueue = s.lifecycleQueue
  /\ lifecycleLastSent = s.lifecycleLastSent
  /\ lifecycleFocusTimers = s.lifecycleFocusTimers
  /\ activeWindows = s.activeWindows
  /\ winboxes = s.winboxes
  /\ focusTimeouts = s.focusTimeouts
  /\ WinBox = s.WinBox
  /\ openCalls = s.openCalls
  /\ produced = s.produced
  /\ dispatched = s.dispatched
  /\ calls = s.calls
  /\ emitted = s.emitted
  /\ refreshes = s.refreshes

Init ==
  /\ mounted = FALSE
  /\ now = 0
  /\ Holds(Fresh)
  /\ bridge = FreshBridge
  /\ op = [name |-> "constructor", arg |-> ""]

(***************************************************************************)
(* Actions: one per handler.                                               *)
(***************************************************************************)
RECURSIVE SumOver(_, _)
SumOver(f, S) ==
  IF S = {} THEN 0 ELSE LET x == CHOOSE y \in S : TRUE IN f[x] + SumOver(f, S \ {x})
InFlight == SumOver(pendingCalls, OperationNames)

MonitorBounded ==
  /\ Len(wsStateHistory) < MaxHistory
  /\ wsBackendSendOk + wsBackendSendFail + InFlight < MaxSends

\* The registry a handler finds when it starts: the embedded runtime binds and
\* unbinds callables, and loads the bridge object, between handlers.
InEnv(w, g) == [This EXCEPT !.webui = w, !.globals = g]

MountWith(ports) ==
  /\ ~mounted
  /\ \E w \in WebuiStates, g \in BackendConfigs,
        injected \in ports, locationPort \in ports,
        setEventCallback \in {"absent", "ok", "throws"} :
       /\ Commit(mount(InEnv(w, g), injected, locationPort, setEventCallback))
       /\ op' = [name |-> "mount", arg |-> setEventCallback,
                 injected |-> injected, locationPort |-> locationPort]
  /\ mounted' = TRUE
  /\ UNCHANGED now

Mount == MountWith({NaN})

WebuiEvent ==
  /\ mounted /\ eventCallback /\ MonitorBounded
  /\ \E w \in WebuiStates \ {"absent"}, g \in BackendConfigs,
        evt \in {"CONNECTED", "DISCONNECTED", "OTHER"} :
       /\ Commit(onWebuiEvent(InEnv(w, g), evt))
       /\ op' = [name |-> "webuiEvent", arg |-> evt]
  /\ UNCHANGED <<mounted, now>>

Offline ==
  /\ mounted /\ MonitorBounded
  /\ \E w \in WebuiStates, g \in BackendConfigs :
       Commit(onOffline(InEnv(w, g)))
  /\ op' = [name |-> "offline", arg |-> ""]
  /\ UNCHANGED <<mounted, now>>

Online ==
  /\ mounted /\ MonitorBounded
  /\ \E w \in WebuiStates, g \in BackendConfigs :
       Commit(onOnline(InEnv(w, g)))
  /\ op' = [name |-> "online", arg |-> ""]
  /\ UNCHANGED <<mounted, now>>

\* typeof webui?.isConnected === 'function' ? webui.isConnected() : !!window.webui
ProbeResults(w) == IF w = "absent" THEN {FALSE} ELSE {TRUE, FALSE}

Heartbeat ==
  /\ wsHeartbeatTimer # Null /\ MonitorBounded
  /\ \E w \in WebuiStates, g \in BackendConfigs :
       \E connectedByApi \in ProbeResults(w) :
         /\ Commit(onHeartbeat(InEnv(w, g), connectedByApi))
         /\ op' = [name |-> "heartbeat",
                    arg |-> IF connectedByApi THEN "reachable" ELSE "unreachable"]
  /\ UNCHANGED <<mounted, now>>

RuntimePort ==
  /\ mounted
  /\ \E candidate \in PortInputs \cup {Integer(9000)} :
       /\ Commit(onRuntimePort(This, candidate))
       /\ op' = [name |-> "runtimePort", arg |-> candidate]
  /\ UNCHANGED <<mounted, now>>

CallResolved ==
  /\ \E name \in OperationNames :
       /\ pendingCalls[name] > 0
       /\ Commit(onCallResolved(This, name))
       /\ op' = [name |-> "callResolved", arg |-> name]
  /\ UNCHANGED <<mounted, now>>

CallRejected ==
  /\ \E name \in OperationNames :
       /\ pendingCalls[name] > 0
       /\ Commit(onCallRejected(This, name))
       /\ op' = [name |-> "callRejected", arg |-> name]
  /\ UNCHANGED <<mounted, now>>

\* The connection monitor and the resolver: mount, then the monitor's handlers.
Next ==
  \/ Mount
  \/ WebuiEvent
  \/ Offline
  \/ Online
  \/ Heartbeat
  \/ CallResolved
  \/ CallRejected

Spec == Init /\ [][Next]_vars

(***************************************************************************)
(* Transition requests on their own: transitionWsState and                 *)
(* BackendBridge.transitionState called with every target state, with and  *)
(* without a reason, from the states the monitor reaches.  The two objects  *)
(* share no field, so a run exercises one of them.                         *)
(***************************************************************************)
Reasons == {NoReason, "requested"}

MountAlone == bridge = FreshBridge /\ Mount

Request ==
  /\ mounted /\ Len(wsStateHistory) < MaxHistory
  /\ \E state \in WsConnectionStates, reason \in Reasons :
       /\ Commit(transitionWsState(This, state, reason))
       /\ op' = [name |-> "transitionWsState", arg |-> state, reason |-> reason]
  /\ UNCHANGED <<mounted, now>>

AppUnchanged ==
  UNCHANGED <<envVars, monVars, queueVars, winVars, produced, dispatched, calls, emitted,
              refreshes>>

\* The start of a method of the BackendBridge: the observations of the last one reset.
BridgeNow ==
  [bridge EXCEPT !.refreshed = 0, !.reported = <<>>, !.emitted = <<>>, !.ret = FALSE,
                 !.elapsed = 0, !.ahead = 0]

BridgeSetCallbacks ==
  /\ ~mounted /\ ~bridge.callbacks
  /\ bridge' = setCallbacks(BridgeNow)
  /\ op' = [name |-> "setCallbacks", arg |-> ""]
  /\ AppUnchanged /\ UNCHANGED now

BridgeRequest ==
  /\ ~mounted /\ Len(bridge.wsStateHistory) < MaxHistory
  /\ \E state \in WsConnectionStates, reason \in Reasons :
       /\ bridge' = transitionState(BridgeNow, state, reason)
       /\ op' = [name |-> "transitionState", arg |-> state, reason |-> reason]
  /\ AppUnchanged /\ UNCHANGED now

(***************************************************************************)
(* The runtime port: mount() with every kind of injected and location      *)
(* port, the 'webui_runtime_port' signal, and the BackendBridge's own       *)
(* resolution.                                                             *)
(***************************************************************************)
MountPorts == bridge = FreshBridge /\ MountWith(PortInputs)

BridgeResolve ==
  /\ ~mounted
  /\ \E fromWindow \in PortInputs, fromUrl \in UrlTexts :
       /\ bridge' = BackendBridge_resolveWsRuntimePort(BridgeNow, fromWindow, fromUrl)
       /\ op' = [name |-> "BackendBridge.resolveWsRuntimePort", arg |-> "",
                 injected |-> fromWindow, locationPort |-> fromUrl]
  /\ AppUnchanged /\ UNCHANGED now

NextPort ==
  \/ MountPorts
  \/ RuntimePort
  \/ Offline
  \/ BridgeResolve

SpecPort == Init /\ [][NextPort]_vars

(***************************************************************************)
(* The window registry and the lifecycle queue after mount(): the user's   *)
(* clicks, the window manager's callbacks, the timers and the clock.       *)
(***************************************************************************)
Titles == {"Calculator", "Terminal"}

\* Date.now() between two handlers advances by one of these (milliseconds).
ClockSteps == {125}

\* Registries the window handlers run in: no backend callable and no bridge object,
\* so that every payload produced stays in the queue.
WindowEnvs == {Unbound}

InitWindows ==
  /\ mounted = TRUE
  /\ now = 0
  /\ Holds([mount(Fresh, NaN, NaN, "absent") EXCEPT !.calls = <<>>, !.refreshes = 0])
  /\ bridge = FreshBridge
  /\ op = [name |-> "mount", arg |-> ""]

\* User-driven handlers start while fewer than MaxProduced payloads were produced.
UserBounded == produced < MaxProduced

Tick ==
  /\ \E step \in ClockSteps :
       /\ now + step <= MaxClock
       /\ now' = now + step
  /\ op' = [name |-> "tick", arg |-> ""]
  /\ calls' = <<>> /\ emitted' = <<>> /\ refreshes' = 0
  /\ UNCHANGED <<envVars, monVars, queueVars, winVars, bridge, produced, dispatched>>

\* A card is clicked: openWindow(title, ...) runs up to its await, or to its end
\* when window.WinBox is set.
OpenWindow ==
  /\ UserBounded
  /\ \E g \in WindowEnvs, title \in Titles :
       /\ \/ FindTitle(activeWindows, title) # 0
          \/ Len(winboxes) + Len(openCalls) < MaxWinboxes
       /\ Commit(openWindowCall(InEnv("absent", g), title, now))
       /\ op' = [name |-> "openWindow", arg |-> title]
  /\ UNCHANGED <<mounted, now>>

\* The suspended openWindow call goes on: the reaction of its await runs.
OpenResume ==
  /\ openCalls # <<>>
  /\ \E g \in WindowEnvs : Commit(openWindowResume(InEnv("absent", g), now))
  /\ op' = [name |-> "openWindowResume", arg |-> Head(openCalls)]
  /\ UNCHANGED <<mounted, now>>

\* No openWindow call is suspended.  The reaction of an await runs before the
\* next timer or event callback does, so these start in settled states only.
Settled == openCalls = <<>>

\* The ids shown in the window list: one item per record.
ListedIds == {activeWindows[i].id : i \in 1..Len(activeWindows)}

\* A click on a window's item in the list, outside its close button.
ClickWindowItem ==
  /\ UserBounded /\ Len(focusTimeouts) < MaxTimeouts
  /\ \E g \in WindowEnvs, id \in ListedIds :
       /\ Commit(focusWindow(InEnv("absent", g), FindId(activeWindows, id), now))
       /\ op' = [name |-> "clickWindowItem", arg |-> id]
  /\ UNCHANGED <<mounted, now>>

\* A click on the close button of a window's item: the listener first handles it as a
\* click on the item (the button is inside it), then as a click on the button.
closeIfListed(s, id, t) ==
  IF FindId(s.activeWindows, id) # 0 THEN closeWindow(s, FindId(s.activeWindows, id), t)
  ELSE s

clickWindowClose(s, id, t) ==
  closeIfListed(focusWindow(s, FindId(s.activeWindows, id), t), id, t)

ClickWindowClose ==
  /\ UserBounded /\ Len(focusTimeouts) < MaxTimeouts
  /\ \E g \in WindowEnvs, id \in ListedIds :
       /\ Commit(clickWindowClose(InEnv("absent", g), id, now))
       /\ op' = [name |-> "clickWindowClose", arg |-> id]
  /\ UNCHANGED <<mounted, now>>

\* hideAllWindows may be the last handler of a run: it starts when MaxProduced
\* payloads were produced, too.
HideAll ==
  /\ produced <= MaxProduced /\ activeWindows # <<>>
  /\ \E g \in WindowEnvs : Commit(hideAllWindows(InEnv("absent", g), now))
  /\ op' = [name |-> "hideAllWindows", arg |-> ""]
  /\ UNCHANGED <<mounted, now>>

CloseAll ==
  /\ UserBounded /\ activeWindows # <<>>
  /\ \E g \in WindowEnvs : Commit(closeAllWindows(InEnv("absent", g), now))
  /\ op' = [name |-> "closeAllWindows", arg |-> ""]
  /\ UNCHANGED <<mounted, now>>

\* The window manager reports what the user did to a window through its own
\* controls: the callback of that instance runs.
LiveWinboxes == {h \in 1..Len(winboxes) : winboxes[h].alive}

WmMinimize ==
  /\ UserBounded
  /\ \E g \in WindowEnvs, h \in LiveWinboxes :
       /\ Commit(WinBoxMinimize(InEnv("absent", g), h, now))
       /\ op' = [name |-> "onminimize", arg |-> winboxes[h].id]
  /\ UNCHANGED <<mounted, now>>

WmRestore ==
  /\ UserBounded
  /\ \E g \in WindowEnvs, h \in LiveWinboxes :
       /\ Commit(WinBoxRestore(InEnv("absent", g), h, now))
       /\ op' = [name |-> "onrestore", arg |-> winboxes[h].id]
  /\ UNCHANGED <<mounted, now>>

WmMaximize ==
  /\ UserBounded
  /\ \E h \in LiveWinboxes :
       /\ Commit(onmaximize(This, winboxes[h].id, winboxes[h].title, now))
       /\ op' = [name |-> "onmaximize", arg |-> winboxes[h].id]
  /\ UNCHANGED <<mounted, now>>

WmFocus ==
  /\ UserBounded
  /\ \E h \in LiveWinboxes :
       /\ Commit(WinBoxFocus(This, h, now))
       /\ op' = [name |-> "onfocus", arg |-> winboxes[h].id]
  /\ UNCHANGED <<mounted, now>>

WmBlur ==
  /\ UserBounded
  /\ \E h \in LiveWinboxes :
       /\ Commit(onblur(This, winboxes[h].id))
       /\ op' = [name |-> "onblur", arg |-> winboxes[h].id]
  /\ UNCHANGED <<mounted, now>>

WmClose ==
  /\ UserBounded
  /\ \E g \in WindowEnvs, h \in LiveWinboxes :
       /\ Commit(WinBoxClose(InEnv("absent", g), h, now))
       /\ op' = [name |-> "onclose", arg |-> winboxes[h].id]
  /\ UNCHANGED <<mounted, now>>

\* A focus-debounce timer that is due fires.
FocusTimerFires ==
  /\ \E g \in WindowEnvs, id \in DOMAIN lifecycleFocusTimers :
       /\ now >= lifecycleFocusTimers[id].due
       /\ Commit(onFocusTimer(InEnv("absent", g), id, now))
       /\ op' = [name |-> "focusTimer", arg |-> id]
  /\ UNCHANGED <<mounted, now>>

\* The oldest zero-delay callback of focusWindow runs.
FocusTimeoutFires ==
  /\ focusTimeouts # <<>>
  /\ \E g \in WindowEnvs, deadFocus \in {"returns", "throws"} :
       Commit(onFocusTimeout([InEnv("absent", g) EXCEPT !.focusTimeouts = Tail(@)],
                             Head(focusTimeouts), deadFocus, now))
  /\ op' = [name |-> "focusTimeout", arg |-> Head(focusTimeouts).id]
  /\ UNCHANGED <<mounted, now>>

\* The 1000 ms interval of startBackendBridge.
FlushTick ==
  /\ lifecycleFlushTimer # Null /\ lifecycleQueue # <<>>
  /\ \E g \in WindowEnvs : Commit(flushLifecycleQueue(InEnv("absent", g)))
  /\ op' = [name |-> "flush", arg |-> ""]
  /\ UNCHANGED <<mounted, now>>

NextWindows ==
  \/ Settled /\ Tick
  \/ Settled /\ OpenWindow
  \/ OpenResume
  \/ Settled /\ ClickWindowItem
  \/ Settled /\ ClickWindowClose
  \/ Settled /\ HideAll
  \/ Settled /\ CloseAll
  \/ Settled /\ WmMinimize
  \/ Settled /\ WmRestore
  \/ Settled /\ WmMaximize
  \/ Settled /\ WmFocus
  \/ Settled /\ WmBlur
  \/ Settled /\ WmClose
  \/ Settled /\ FocusTimerFires
  \/ Settled /\ FocusTimeoutFires

SpecWindows == InitWindows /\ [][NextWindows]_vars

(***************************************************************************)
(* emitWindowLifecycle on its own: calls for every event and window id,    *)
(* each some time after the one before, on the App and on the              *)
(* BackendBridge (a run exercises one of them).                            *)
(***************************************************************************)
EmitEvents == {"focused", "minimized"}
EmitIds == {1, 2}
EmitEnvs == {Unbound, BoundCamel("ok")}
Delays == {0} \cup ClockSteps

\* Milliseconds the clock moves between the two reads of one call.
ClockAdvances == {0, 1}

\* The call begins `delay` after the one before; the clock then stands where the
\* call's last read left it.
EmitCall ==
  /\ produced < MaxProduced /\ bridge = FreshBridge
  /\ \E g \in EmitEnvs, state \in EmitEvents, id \in EmitIds, delay \in Delays,
        ahead \in ClockAdvances :
       /\ now + delay + ahead <= MaxClock
       /\ \E r \in {emitWindowLifecycle([InEnv("absent", g) EXCEPT !.ahead = ahead],
                                          state, id, "Window", now + delay)} :
            /\ Commit(r)
            /\ now' = now + delay + r.elapsed
       /\ op' = [name |-> "emitWindowLifecycle", arg |-> id, state |-> state,
                 ts |-> now + delay]
  /\ UNCHANGED mounted

BridgeEmitCall ==
  /\ Len(bridge.lifecycleQueue) < MaxProduced /\ produced = 0
  /\ \E state \in EmitEvents, id \in EmitIds, delay \in Delays, ahead \in ClockAdvances :
       /\ now + delay + ahead <= MaxClock
       /\ \E r \in {BackendBridge_emitWindowLifecycle(
                       [BridgeNow EXCEPT !.ahead = ahead], state, id, "Window",
                       now + delay)} :
            /\ bridge' = [r EXCEPT !.ahead = 0]
            /\ now' = now + delay + r.elapsed
       /\ op' = [name |-> "BackendBridge.emitWindowLifecycle", arg |-> id,
                 state |-> state, ts |-> now + delay]
  /\ AppUnchanged

NextEmit ==
  \/ EmitCall
  \/ BridgeEmitCall

SpecEmit == InitWindows /\ [][NextEmit]_vars

(***************************************************************************)
(* The queue at its capacity: a burst of lifecycle events of one window    *)
(* while no backend callable and no bridge object exists, with the         *)
(* periodic flush running in between.                                      *)
(***************************************************************************)
BurstEmit ==
  /\ produced < MaxBurst
  /\ \E state \in EmitEvents :
       /\ Commit(emitWindowLifecycle(InEnv("absent", Unbound), state, 1, "Window", now))
       /\ op' = [name |-> "emitWindowLifecycle", arg |-> 1, state |-> state, ts |-> now]
  /\ UNCHANGED <<mounted, now>>

NextQueueCap ==
  \/ BurstEmit
  \/ FlushTick

SpecQueueCap == InitWindows /\ [][NextQueueCap]_vars

(***************************************************************************)
(* The queue at its capacity and then drained: the burst above, and the    *)
(* backend callable appearing once the queue has filled up, so that a      *)
(* flush dispatches what the queue still holds.                            *)
(***************************************************************************)
DrainFlush ==
  /\ lifecycleFlushTimer # Null /\ lifecycleQueue # <<>>
  /\ produced >= LifecycleQueueCap
  /\ Commit(flushLifecycleQueue(InEnv("absent", BoundCamel("ok"))))
  /\ op' = [name |-> "flush", arg |-> "drain"]
  /\ UNCHANGED <<mounted, now>>

NextQueueDrain ==
  \/ BurstEmit
  \/ FlushTick
  \/ DrainFlush

SpecQueueDrain == InitWindows /\ [][NextQueueDrain]_vars

(***************************************************************************)
(* The lifecycle queue while the backend comes and goes: lifecycle events  *)
(* of two windows and the periodic flush (the continuations of the         *)
(* webui.call promises touch the send counters and the last error only,    *)
(* and are left to the monitor's runs).  Between two handlers the embedded *)
(* runtime binds or unbinds log_window_lifecycle (to a callable that       *)
(* returns or throws) and loads or unloads the bridge object.  The clock   *)
(* stands still, so a repeat of a window's last event is suppressed.       *)
(***************************************************************************)
QueueWebui == {"absent", "full"}

\* callBackend("log_window_lifecycle", ...) returns true in this registry.
Dispatchable(w, g) ==
  \/ resolveBackendBinding(g, "log_window_lifecycle") = "ok"
  \/ w = "full"

\* Handlers that count a failure start while fewer than MaxSends were counted.
FailuresBounded(g) ==
  resolveBackendBinding(g, "log_window_lifecycle") = "throws" => wsBackendSendFail < MaxSends

EmitIn ==
  /\ produced < MaxProduced
  /\ \E w \in QueueWebui, g \in BackendConfigs, state \in EmitEvents, id \in EmitIds :
       /\ FailuresBounded(g)
       /\ Commit(emitWindowLifecycle(InEnv(w, g), state, id, "Window", now))
       /\ op' = [name |-> "emitWindowLifecycle", arg |-> id, state |-> state, ts |-> now]
  /\ UNCHANGED <<mounted, now>>

\* The 1000 ms interval of startBackendBridge, in whatever registry it finds.
FlushIn ==
  /\ lifecycleFlushTimer # Null /\ lifecycleQueue # <<>>
  /\ \E w \in QueueWebui, g \in BackendConfigs :
       /\ FailuresBounded(g)
       /\ \E r \in {flushLifecycleQueue(InEnv(w, g))} : Commit(r)
  /\ op' = [name |-> "flush", arg |-> ""]
  /\ UNCHANGED <<mounted, now>>

NextQueue ==
  \/ EmitIn
  \/ FlushIn

SpecQueue == InitWindows /\ [][NextQueue]_vars

\* The same for one window, with the flush timer kept going: the interval is
\* never cleared once startBackendBridge has set it, so as long as payloads are
\* queued the flush callback runs again.
EmitLive ==
  /\ produced < MaxProduced
  /\ \E w \in QueueWebui, g \in BackendConfigs, state \in EmitEvents :
       /\ FailuresBounded(g)
       /\ Commit(emitWindowLifecycle(InEnv(w, g), state, 1, "Window", now))
       /\ op' = [name |-> "emitWindowLifecycle", arg |-> 1, state |-> state, ts |-> now]
  /\ UNCHANGED <<mounted, now>>

NextQueueLive ==
  \/ EmitLive
  \/ FlushIn

SpecQueueLive == InitWindows /\ [][NextQueueLive]_vars /\ WF_vars(FlushIn)

(***************************************************************************)
(* Accepted transitions one at a time: requests for every target state,    *)
(* and the browser's offline signal, which counts a reconnect attempt      *)
(* before its transition.                                                  *)
(***************************************************************************)
NextTransition ==
  \/ MountAlone
  \/ Request
  \/ Offline

SpecTransition == Init /\ [][NextTransition]_vars

(***************************************************************************)
(* The transition history at its cap: a connection that flaps between      *)
(* `connected` and `reconnecting` for as long as it takes to fill the      *)
(* history, on the App and on the BackendBridge (a run exercises one of    *)
(* them), with same-state requests without a reason in between.            *)
(***************************************************************************)
Flap(state) == IF state = "connected" THEN "reconnecting" ELSE "connected"

FlapRequest ==
  /\ op.name \in {"mount", "transitionWsState"}
  /\ \E reason \in Reasons :
       \E state \in {IF reason = NoReason THEN wsState ELSE Flap(wsState)} :
         /\ Commit(transitionWsState(This, state, reason))
         /\ op' = [name |-> "transitionWsState", arg |-> state, reason |-> reason]
  /\ UNCHANGED <<mounted, now>>

BridgeFlapRequest ==
  /\ op.name \in {"mount", "transitionState"}
  /\ \E state \in {bridge.wsState, Flap(bridge.wsState)} :
       /\ bridge' = transitionState(BridgeNow, state, "requested")
       /\ op' = [name |-> "transitionState", arg |-> state, reason |-> "requested"]
  /\ AppUnchanged /\ UNCHANGED <<mounted, now>>

NextHistoryCap ==
  \/ FlapRequest
  \/ BridgeFlapRequest

SpecHistoryCap == InitWindows /\ [][NextHistoryCap]_vars

(***************************************************************************)
(* One flush over a queue of several payloads: lifecycle events of two     *)
(* windows pile up while nothing is bound, then a flush runs in a registry  *)
(* where log_window_lifecycle is unbound, returns, throws, or throws on    *)
(* the payloads of one window only, with or without webui.call.            *)
(***************************************************************************)
FlushConfigs == BackendConfigs \cup {BoundCamel("picky")}

PileUp ==
  /\ produced < MaxProduced
  /\ \E state \in EmitEvents, id \in EmitIds :
       /\ Commit(emitWindowLifecycle(InEnv("absent", Unbound), state, id, "Window", now))
       /\ op' = [name |-> "emitWindowLifecycle", arg |-> id, state |-> state, ts |-> now]
  /\ UNCHANGED <<mounted, now>>

FlushOnce ==
  /\ lifecycleFlushTimer # Null /\ lifecycleQueue # <<>>
  /\ wsBackendSendFail < MaxSends
  /\ \E w \in QueueWebui, g \in FlushConfigs :
       Commit(flushLifecycleQueue(InEnv(w, g)))
  /\ op' = [name |-> "flush", arg |-> ""]
  /\ UNCHANGED <<mounted, now>>

NextFlush ==
  \/ PileUp
  \/ FlushOnce

SpecFlush == InitWindows /\ [][NextFlush]_vars

(***************************************************************************)
(* openWindow calls that overlap: a call made while another one waits at   *)
(* its await, and the handlers that close windows once no call is waiting  *)
(* (a suspended call resumes before the next task starts).                 *)
(***************************************************************************)
NextOpen ==
  \/ OpenWindow
  \/ OpenResume
  \/ Settled /\ Tick
  \/ Settled /\ ClickWindowClose
  \/ Settled /\ CloseAll
  \/ Settled /\ WmMinimize
  \/ Settled /\ WmClose
  \/ Settled /\ FocusTimerFires
  \/ Settled /\ FocusTimeoutFires

SpecOpen == InitWindows /\ [][NextOpen]_vars

(***************************************************************************)
(* callBackend on its own: called for every operation in every registry,   *)
(* with the continuations of the promises it leaves, while the monitor     *)
(* moves between its states.                                               *)
(***************************************************************************)
CallDirect ==
  /\ mounted /\ wsBackendSendOk + wsBackendSendFail + InFlight < MaxSends
  /\ \E w \in WebuiStates, g \in BackendConfigs, name \in OperationNames :
       /\ Commit(callBackend(InEnv(w, g), name, [window_id |-> 1]))
       /\ op' = [name |-> "callBackend", arg |-> name]
  /\ UNCHANGED <<mounted, now>>

NextCall ==
  \/ Mount
  \/ Offline
  \/ Online
  \/ CallDirect
  \/ CallResolved
  \/ CallRejected

SpecCall == Init /\ [][NextCall]_vars

(***************************************************************************)
(* Teardown.  The App is mounted, so its heartbeat timer runs (and its     *)
(* flush timer, on an empty queue); a BackendBridge is started, used and   *)
(* destroyed.                                                              *)
(* BackendBridge.destroy() is the program's one teardown routine: nothing  *)
(* is called on the objects after it, and what still happens is the work   *)
(* of timers.                                                              *)
(***************************************************************************)
TeardownEnvs == {Unbound, BoundCamel("ok"), BoundLiteral("throws")}
TeardownIds == {1}
BridgeBounded == Len(bridge.dispatched) + Len(bridge.lifecycleQueue) < MaxProduced

\* Calls that count an outcome or leave a promise start while the bridge has
\* counted, with the k calls to come, at most MaxSends of them.
BridgeSendsBounded(w, g, k) ==
  (w = "full" \/ resolveBackendBinding(g, "log_window_lifecycle") # "absent")
    => bridge.wsBackendSendOk + bridge.wsBackendSendFail + bridge.pendingCalls + k
         <= MaxSends

BridgeStart ==
  /\ ~bridge.destroyed /\ bridge.lifecycleFlushTimer = Null
  /\ \E w \in QueueWebui, g \in TeardownEnvs :
       /\ BridgeSendsBounded(w, g, Len(bridge.lifecycleQueue))
       /\ bridge' = BackendBridge_start(BridgeNow, w, g)
  /\ op' = [name |-> "BackendBridge.start", arg |-> ""]
  /\ AppUnchanged /\ UNCHANGED now

\* A caller hands a payload to the public sendLifecycleToBackend.
BridgeSend ==
  /\ ~bridge.destroyed /\ BridgeBounded
  /\ \E w \in QueueWebui, g \in TeardownEnvs, id \in TeardownIds :
       /\ BridgeSendsBounded(w, g, 1)
       /\ bridge' = BackendBridge_sendLifecycleToBackend(
                       BridgeNow, w, g,
                       [event |-> "opened", window_id |-> id, title |-> "Window",
                        timestamp |-> now])
       /\ op' = [name |-> "BackendBridge.sendLifecycleToBackend", arg |-> id]
  /\ AppUnchanged /\ UNCHANGED now

\* A promise of the bridge's webui.call settles.
BridgeCallResolved ==
  /\ bridge.pendingCalls > 0
  /\ bridge' = BackendBridge_onCallResolved(BridgeNow)
  /\ op' = [name |-> "BackendBridge.callResolved", arg |-> "log_window_lifecycle"]
  /\ AppUnchanged /\ UNCHANGED now

BridgeCallRejected ==
  /\ bridge.pendingCalls > 0
  /\ bridge' = BackendBridge_onCallRejected(BridgeNow, "log_window_lifecycle")
  /\ op' = [name |-> "BackendBridge.callRejected", arg |-> "log_window_lifecycle"]
  /\ AppUnchanged /\ UNCHANGED now

BridgeFocus ==
  /\ ~bridge.destroyed
  /\ \E id \in TeardownIds :
       /\ bridge' = BackendBridge_emitFocusedLifecycle(BridgeNow, id, "Window", now)
       /\ op' = [name |-> "BackendBridge.emitFocusedLifecycle", arg |-> id]
  /\ AppUnchanged /\ UNCHANGED now

BridgeFocusTimerFires ==
  /\ BridgeBounded
  /\ \E id \in bridge.focusLive :
       /\ now >= bridge.lifecycleFocusTimers[id].due
       /\ bridge' = BackendBridge_onFocusTimer(BridgeNow, id, now)
       /\ op' = [name |-> "BackendBridge.focusTimer", arg |-> id]
  /\ AppUnchanged /\ UNCHANGED now

BridgeFlushTick ==
  /\ bridge.flushLive /\ bridge.lifecycleQueue # <<>>
  /\ \E w \in QueueWebui, g \in TeardownEnvs :
       /\ BridgeSendsBounded(w, g, Len(bridge.lifecycleQueue))
       /\ bridge' = BackendBridge_flushLifecycleQueue(BridgeNow, w, g)
  /\ op' = [name |-> "BackendBridge.flush", arg |-> ""]
  /\ AppUnchanged /\ UNCHANGED now

BridgeDestroy ==
  /\ ~bridge.destroyed
  /\ bridge' = BackendBridge_destroy(BridgeNow)
  /\ op' = [name |-> "BackendBridge.destroy", arg |-> ""]
  /\ AppUnchanged /\ UNCHANGED now

(***************************************************************************)
(* The BackendBridge's queue under a burst: lifecycle events of one window, *)
(* with its periodic flush running in between.                             *)
(***************************************************************************)
BridgeBurstEmit ==
  /\ Len(bridge.lifecycleQueue) < MaxBurst
  /\ \E state \in EmitEvents :
       /\ bridge' = BackendBridge_emitWindowLifecycle(BridgeNow, state, 1, "Window", now)
       /\ op' = [name |-> "BackendBridge.emitWindowLifecycle", arg |-> 1,
                 state |-> state, ts |-> now]
  /\ AppUnchanged /\ UNCHANGED now

NextBridgeCap ==
  \/ BridgeStart
  \/ BridgeBurstEmit
  \/ BridgeFlushTick

SpecBridgeCap == InitWindows /\ [][NextBridgeCap]_vars

\* The two objects on their own: requested transitions, and the BackendBridge's
\* direct sends with the continuations of the promises they leave.  A run
\* exercises the monitor, the bridge's transitions or the bridge's sends.
BridgeUnsent ==
  /\ bridge.wsBackendSendOk + bridge.wsBackendSendFail + bridge.pendingCalls = 0
  /\ bridge.dispatched = <<>>

BridgeUnmoved == bridge.wsStateHistory = <<>>

NextRequest ==
  \/ MountAlone
  \/ Request
  \/ CallRejected
  \/ BridgeSetCallbacks
  \/ BridgeUnsent /\ BridgeRequest
  \/ ~mounted /\ BridgeUnmoved /\ BridgeSend
  \/ ~mounted /\ BridgeCallResolved
  \/ ~mounted /\ BridgeCallRejected

SpecRequest == Init /\ [][NextRequest]_vars

NextTeardown ==
  \/ Tick
  \/ Heartbeat
  \/ BridgeStart
  \/ BridgeFocus
  \/ BridgeFocusTimerFires
  \/ BridgeFlushTick
  \/ BridgeCallResolved
  \/ BridgeCallRejected
  \/ BridgeDestroy

SpecTeardown == InitWindows /\ [][NextTeardown]_vars

(***************************************************************************)
(* The heartbeat while lifecycle payloads wait in the queue: mount, then   *)
(* heartbeat ticks in every registry, and lifecycle events of one window   *)
(* that find no backend.                                                   *)
(***************************************************************************)
EmitUnsent ==
  /\ produced < MaxProduced
  /\ \E state \in EmitEvents :
       /\ Commit(emitWindowLifecycle(InEnv("absent", Unbound), state, 1, "Window", now))
       /\ op' = [name |-> "emitWindowLifecycle", arg |-> 1, state |-> state, ts |-> now]
  /\ UNCHANGED <<mounted, now>>

NextHeartbeat ==
  \/ Mount
  \/ Heartbeat
  \/ EmitUnsent

SpecHeartbeat == Init /\ [][NextHeartbeat]_vars

(***************************************************************************)
(* Properties of the connection monitor.                                   *)
(***************************************************************************)
\* The handler that just ran reported an accepted transition to `state`.
Transitioned(state) ==
  \E i \in DOMAIN calls :
    calls[i].name = "ws_state_change" /\ calls[i].payload.state = state

\* The last backend call of the handler that just ran is the report of an
\* accepted transition to `state`: the transition is the last thing it did.
TransitionCompleted(state) ==
  /\ calls # <<>>
  /\ calls[Len(calls)].name = "ws_state_change"
  /\ calls[Len(calls)].payload.state = state

\* C1: after any sequence of handlers of the connection monitor (startup,
\* CONNECTED/DISCONNECTED events, online/offline signals, heartbeat ticks) the
\* current wsState is the state of the last entry of wsStateHistory; before
\* the first transition the history is empty and the state is `initializing`.
C1_StateIsLastAccepted ==
  IF wsStateHistory = <<>>
    THEN wsState = "initializing"
    ELSE wsState = wsStateHistory[Len(wsStateHistory)].state

\* A heartbeat found the bridge unreachable after two earlier transitions.
C1_Witness ==
  /\ op = [name |-> "heartbeat", arg |-> "unreachable"]
  /\ Len(wsStateHistory) = 3
  /\ wsStateHistory[2].state = "connected"
  /\ wsState = "reconnecting"

\* C3: every transition to `connected` made by a reachability-positive signal
\* (CONNECTED event, browser online, positive heartbeat while not connected)
\* leaves wsReconnectAttempts = 0.
C3_RecoveryResetsAttempts ==
  (/\ op.name \in {"webuiEvent", "online", "heartbeat"}
   /\ Transitioned("connected"))
  => wsReconnectAttempts = 0

\* C4: when an accepted transition to `connected` has completed, its
\* ws_state_change report included, wsLastError is empty.
C4_ConnectedClearsError ==
  TransitionCompleted("connected") => wsLastError = NoError

\* C2: a transition request whose target is the current state and that carries
\* no reason changes nothing: wsState, wsStateHistory, wsLastError and the
\* reconnect counter stay, no ws_state_change report is sent and the
\* diagnostics are not refreshed; likewise for BackendBridge.transitionState.
C2_SameStateNoReasonIsNoOp ==
  [][ /\ (op'.name = "transitionWsState" /\ op'.arg = wsState /\ op'.reason = NoReason)
         => /\ UNCHANGED <<wsState, wsStateHistory, wsLastError, wsReconnectAttempts>>
            /\ calls' = <<>>
            /\ refreshes' = 0
      /\ (op'.name = "transitionState" /\ op'.arg = bridge.wsState
            /\ op'.reason = NoReason)
         => /\ bridge'.wsState = bridge.wsState
            /\ bridge'.wsStateHistory = bridge.wsStateHistory
            /\ bridge'.refreshed = 0
            /\ bridge'.reported = <<>> ]_vars

\* A same-state request without a reason has just been made of the App, in a
\* state other than the initial one and with an error on record.
C2_Witness ==
  /\ op = [name |-> "transitionWsState", arg |-> wsState, reason |-> NoReason]
  /\ wsState = "reconnecting"
  /\ Len(wsStateHistory) = 3
  /\ wsLastError # NoError
  /\ calls = <<>>

(***************************************************************************)
(* Properties of the window registry.                                      *)
(***************************************************************************)
ActiveRecords(ws) == {i \in 1..Len(ws) : ws[i].active}
RecordsOf(ws, id) == {i \in 1..Len(ws) : ws[i].id = id}
Emitted(seq, event, id) ==
  {k \in 1..Len(seq) : seq[k].event = event /\ seq[k].window_id = id}

\* C7: after any sequence of openWindow, focusWindow, hideAllWindows, closeWindow
\* and window-manager callbacks, at most one record of activeWindows is active.
C7_AtMostOneActive == Cardinality(ActiveRecords(activeWindows)) <= 1

\* C8: openWindow with the title of an already-open, non-minimized record creates
\* no second record, emits no `opened` payload, and leaves that record active.
C8_ReopenFocusesExisting ==
  [][ (/\ \/ op'.name = "openWindow" /\ WinBox
          \/ op'.name = "openWindowResume"
       /\ FindTitle(activeWindows, op'.arg) # 0
       /\ ~activeWindows[FindTitle(activeWindows, op'.arg)].minimized)
      => /\ Len(activeWindows') = Len(activeWindows)
         /\ \A k \in 1..Len(emitted') : emitted'[k].event # "opened"
         /\ FindTitle(activeWindows', op'.arg) # 0
         /\ activeWindows'[FindTitle(activeWindows', op'.arg)].active ]_vars

\* The Calculator was opened again while the Terminal, opened after it, was the
\* active window: the Calculator's record is the active one and there are two records.
C8_Witness ==
  /\ op.name = "openWindow" /\ op.arg = "Calculator"
  /\ Len(activeWindows) = 2
  /\ activeWindows[1].title = "Calculator" /\ activeWindows[1].active
  /\ activeWindows[2].title = "Terminal" /\ ~activeWindows[2].active
  /\ activeWindows[1].id # activeWindows[2].id
  /\ emitted = <<>>

\* C9: when the window manager reports the close of a window, no record of its id
\* stays in activeWindows, exactly one `closed` payload is produced for the id,
\* and no focus-debounce timer of the id stays in lifecycleFocusTimers.
C9_CloseRemovesAndReportsOnce ==
  [][ op'.name = "onclose"
      => /\ RecordsOf(activeWindows', op'.arg) = {}
         /\ Cardinality(Emitted(emitted', "closed", op'.arg)) = 1
         /\ op'.arg \notin DOMAIN lifecycleFocusTimers' ]_vars

\* The last payload produced for the id is `closed`.
ClosedBefore(id) ==
  id \in DOMAIN lifecycleLastSent /\ lifecycleLastSent[id].state = "closed"

\* C10: once a window is closed, no handler produces a further payload for its id
\* (an id that no living window carries).
C10_NoPayloadAfterClose ==
  [][ \A k \in 1..Len(emitted') :
        ~(/\ ClosedBefore(emitted'[k].window_id)
          /\ \A h \in 1..Len(winboxes') :
               winboxes'[h].id = emitted'[k].window_id => ~winboxes'[h].alive) ]_vars

(***************************************************************************)
(* Properties of the lifecycle queue.                                      *)
(***************************************************************************)
\* C5: while the backend is not dispatchable, whatever the interleaving of
\* emitWindowLifecycle calls and flushes, lifecycleQueue holds at most 256
\* payloads, and they are the most recently produced ones in the order they
\* were produced (the oldest are the ones evicted).
C5_QueueKeepsNewest ==
  /\ Len(lifecycleQueue) <= LifecycleQueueCap
  /\ Len(lifecycleQueue) = IF produced < LifecycleQueueCap THEN produced
                           ELSE LifecycleQueueCap
  /\ \A i \in 1..Len(lifecycleQueue) :
       lifecycleQueue[i].serial = produced - Len(lifecycleQueue) + i

\* More payloads than the capacity were produced, and a flush has just run.
C5_Witness ==
  /\ produced > LifecycleQueueCap + 1
  /\ op.name = "flush"
  /\ Len(lifecycleQueue) = LifecycleQueueCap
  /\ lifecycleQueue[1].serial = produced - LifecycleQueueCap + 1

\* The statement of C6 as it stands: of two calls in a row for a window id with
\* the same event, the second produces no payload when it comes less than 250 ms
\* after the first and produces one when it comes 250 ms or more after it.
C6_SecondCallByFirstCall ==
  [][ (/\ op.name = "emitWindowLifecycle" /\ op'.name = "emitWindowLifecycle"
       /\ op'.arg = op.arg /\ op'.state = op.state)
      => (emitted' = <<>> <=> op'.ts - op.ts < DedupWindowMs) ]_vars

\* C6 (amended): a call of emitWindowLifecycle for a window id whose last
\* produced payload carries the same event produces no payload when it comes
\* less than 250 ms after the call that produced that payload, and produces one
\* when it comes 250 ms or more after it; in the App and in the BackendBridge.
C6_RepeatSuppressedWithinWindow ==
  [][ /\ (/\ op'.name = "emitWindowLifecycle"
          /\ op'.arg \in DOMAIN lifecycleLastSent
          /\ lifecycleLastSent[op'.arg].state = op'.state)
         => (emitted' = <<>>
               <=> op'.ts - lifecycleLastSent[op'.arg].ts < DedupWindowMs)
      /\ (/\ op'.name = "BackendBridge.emitWindowLifecycle"
          /\ op'.arg \in DOMAIN bridge.lifecycleLastSent
          /\ bridge.lifecycleLastSent[op'.arg].state = op'.state)
         => (bridge'.emitted = <<>>
               <=> op'.ts - bridge.lifecycleLastSent[op'.arg].ts < BridgeDedupWindowMs)
    ]_vars

\* A repeat exactly 250 ms after the payload it repeats has just produced a payload.
C6_Witness ==
  /\ op.name = "emitWindowLifecycle" /\ op.state = "focused" /\ op.arg = 1
  /\ op.ts = DedupWindowMs
  /\ Len(emitted) = 1
  /\ produced = 2
  /\ lifecycleLastSent[1] = [state |-> "focused", ts |-> DedupWindowMs]

(***************************************************************************)
(* Properties of the binding resolver.                                     *)
(***************************************************************************)
\* No global callable exists under any of the three spellings of the name.
NoCallable(name) ==
  \A i \in 1..3 : GlobalCallable(globals, Candidates[name][i]) = "absent"

\* The handler that just ran found nothing to dispatch `name` to.
NothingToCall(name) == NoCallable(name) /\ webui # "full"

\* C11: callBackend returns false when no global callable exists under any of
\* the three spellings of the operation name and webui.call is absent; a
\* heartbeat tick in that situation still runs to its end (the ws_heartbeat
\* call is made and the diagnostics are refreshed after it), and the state
\* after the tick is `connected` when the probe was positive and
\* `reconnecting` when it was negative.
C11_NothingToCallReturnsFalse ==
  /\ \A i \in DOMAIN calls : NothingToCall(calls[i].name) => ~calls[i].sent
  /\ (op.name = "heartbeat" /\ NothingToCall("ws_heartbeat"))
       => /\ calls # <<>>
          /\ calls[Len(calls)].name = "ws_heartbeat"
          /\ ~calls[Len(calls)].sent
          /\ refreshes >= 1
          /\ wsState = IF op.arg = "reachable" THEN "connected" ELSE "reconnecting"

\* A heartbeat found the bridge object reachable, without call() and without any
\* global callable, in a state other than `connected`, after an error was recorded.
C11_Witness ==
  /\ op = [name |-> "heartbeat", arg |-> "reachable"]
  /\ NothingToCall("ws_heartbeat") /\ NothingToCall("ws_state_change")
  /\ webui = "nocall"
  /\ Len(calls) = 2
  /\ ~calls[1].sent /\ ~calls[2].sent
  /\ wsState = "connected"
  /\ Len(wsStateHistory) = 3

\* The calls of the last handler whose direct callable threw.
ThrowingCalls(cs) == {i \in DOMAIN cs : cs[i].binding = "throws"}

\* C12: when a direct callable resolves for the operation name and throws,
\* callBackend adds one to the failure counter, records `name: message` as
\* the last error, returns true and does not invoke webui.call for that call.
C12_ThrowCountsAsDispatched ==
  [][ /\ wsBackendSendFail' = wsBackendSendFail + Cardinality(ThrowingCalls(calls'))
      /\ \A i \in ThrowingCalls(calls') :
           /\ calls'[i].sent
           /\ ~calls'[i].bridge
           /\ i = Len(calls') =>
                wsLastError' = ErrorText(calls'[i].name, ThrownMessage) ]_vars

(***************************************************************************)
(* Properties of the lifecycle queue while the backend comes and goes.     *)
(***************************************************************************)
\* The calls of a flush of one payload whose direct callable behaved as `mode`.
FlushedOne(cs, mode) ==
  /\ Len(cs) = 1
  /\ cs[1].name = "log_window_lifecycle"
  /\ cs[1].binding = mode

\* C13: a flush of one payload whose direct callable throws adds one to the
\* failure counter and leaves the payload in the queue; when the callable
\* succeeds during the next flush, that flush adds one to the success counter,
\* nothing to the failure counter, and removes the payload from the queue.
C13_ThrowThenSucceed ==
  [][ /\ (op'.name = "flush" /\ FlushedOne(calls', "throws"))
         => /\ wsBackendSendFail' = wsBackendSendFail + 1
            /\ wsBackendSendOk' = wsBackendSendOk
            /\ lifecycleQueue' = lifecycleQueue
      /\ (/\ op.name = "flush" /\ FlushedOne(calls, "throws")
          /\ op'.name = "flush" /\ FlushedOne(calls', "ok"))
         => /\ wsBackendSendFail' = wsBackendSendFail
            /\ wsBackendSendOk' = wsBackendSendOk + 1
            /\ lifecycleQueue' = <<>> ]_vars

\* C14: for any single window id, the payloads dispatched to the backend
\* (log_window_lifecycle calls that returned true) are dispatched in the order
\* in which they were produced, whatever the interleaving of emissions, flush
\* ticks and changes of backend availability.
C14_DispatchedInProductionOrder ==
  \A i, j \in DOMAIN dispatched :
    (i < j /\ dispatched[i].window_id = dispatched[j].window_id)
      => dispatched[i].serial < dispatched[j].serial

\* The identities of the payloads of a sequence.
Serials(seq) == {seq[i].serial : i \in DOMAIN seq}

\* C15 as it stands: every payload produced so far has been dispatched (a call
\* that returned true) or is still in lifecycleQueue.
C15_NothingDropped ==
  \A k \in 1..produced : k \in Serials(dispatched) \cup Serials(lifecycleQueue)

\* Of the payloads `before` (those in the queue when the handler started, and
\* those it produced), all but `evictable` are among `kept`.
AllKeptBut(before, kept, evictable) == \A k \in before : k \in kept \/ k \in evictable

\* C15 (amended): a payload produced by emitWindowLifecycle is dispatched or put
\* in lifecycleQueue, and a queued payload stays in the queue until it is
\* dispatched, except that the oldest payload of a queue that already holds 256
\* leaves it undispatched when a new payload is queued.
C15_DroppedOnlyByEviction ==
  [][ AllKeptBut(Serials(lifecycleQueue) \cup Serials(emitted'),
                 Serials(dispatched') \cup Serials(lifecycleQueue'),
                 IF Len(lifecycleQueue) = LifecycleQueueCap /\ emitted' # <<>>
                   THEN {lifecycleQueue[1].serial} ELSE {}) ]_vars

\* The queue overflowed by one payload and was then flushed to the backend:
\* every payload but the first one produced has been dispatched, in order.
C15_Witness ==
  /\ op = [name |-> "flush", arg |-> "drain"]
  /\ produced = LifecycleQueueCap + 1
  /\ lifecycleQueue = <<>>
  /\ Len(dispatched) = LifecycleQueueCap
  /\ dispatched[1].serial = 2
  /\ dispatched[LifecycleQueueCap].serial = produced

\* The registry the last handler found lets callBackend dispatch a payload.
BackendDispatchable == Dispatchable(webui, globals)

\* C16: if from some point on the backend stays dispatchable (a direct callable
\* for log_window_lifecycle that does not throw, or webui.call, exists) and the
\* flush timer keeps firing, then from some point on the queue is empty and
\* every payload produced has been dispatched.
C16_QueueDrains ==
  (<>[]BackendDispatchable)
    => <>[](/\ lifecycleQueue = <<>>
            /\ \A k \in 1..produced : k \in Serials(dispatched))

\* A flush has just dispatched two queued payloads through webui.call, no
\* direct callable being bound.
C16_Witness ==
  /\ op.name = "flush"
  /\ BackendDispatchable /\ NoCallable("log_window_lifecycle")
  /\ Len(calls) = 2 /\ calls[1].sent /\ calls[2].sent
  /\ lifecycleQueue = <<>>
  /\ Serials(dispatched) = {1, 2}

(***************************************************************************)
(* Properties of the heartbeat and of accepted transitions.                *)
(***************************************************************************)
\* The calls of the last handler for the operation `name`.
CallsOf(cs, name) == {i \in DOMAIN cs : cs[i].name = name}

\* C17: every heartbeat tick, whatever the probe result and the state it starts
\* in, makes exactly one ws_heartbeat call through callBackend, carrying the
\* state as it is after the tick's transition, the probe result and the length
\* of the lifecycle queue, and runs to its end (the diagnostics refresh after
\* the call) whether or not the call was dispatched.
C17_HeartbeatAlwaysReports ==
  op.name = "heartbeat"
    => /\ CallsOf(calls, "ws_heartbeat") = {Len(calls)}
       /\ calls[Len(calls)].payload.state = wsState
       /\ calls[Len(calls)].payload.connected = (op.arg = "reachable")
       /\ calls[Len(calls)].payload.queued_lifecycle_events = Len(lifecycleQueue)
       /\ refreshes >= 1

\* A tick found the bridge unreachable while two payloads were queued, and the
\* callables for its reports threw with no webui.call to fall back on.
C17_Witness ==
  /\ op = [name |-> "heartbeat", arg |-> "unreachable"]
  /\ Len(lifecycleQueue) = 2
  /\ Len(calls) = 2
  /\ calls[1].name = "ws_state_change"
  /\ calls[2].binding = "throws" /\ ~calls[2].sent
  /\ wsState = "reconnecting"

\* The handler of this step made one transition, to `state` for `reason`, and
\* nothing else: one record appended to the history, one ws_state_change call
\* with the new state, the reason and the reconnect-attempt count of that
\* moment, and `refreshed` diagnostics refreshes.
AcceptedOnce(state, reason, refreshed) ==
  /\ wsStateHistory' = Append(wsStateHistory, [state |-> state, reason |-> reason])
  /\ wsState' = state
  /\ Len(calls') = 1
  /\ calls'[1].name = "ws_state_change"
  /\ calls'[1].payload.state = state
  /\ calls'[1].payload.reason = reason
  /\ calls'[1].payload.reconnect_attempts = wsReconnectAttempts'
  /\ refreshes' = refreshed

\* The step is a transition request that is accepted.
AcceptedRequest ==
  /\ op'.name = "transitionWsState"
  /\ ~(op'.arg = wsState /\ op'.reason = NoReason)

\* C18 as it stands: every accepted transition appends exactly one record to
\* wsStateHistory, makes exactly one ws_state_change call with the new state,
\* the reason and the current reconnect-attempt count, and refreshes the
\* diagnostics exactly once.
C18_TransitionRefreshesOnce ==
  [][ /\ AcceptedRequest => AcceptedOnce(op'.arg, op'.reason, 1)
      /\ op'.name = "offline" => AcceptedOnce("reconnecting", "Browser offline", 1) ]_vars

\* The refreshes of a handler that made one transition: the transition's own, and
\* the one of callBackend's catch block when the ws_state_change callable threw.
RefreshesOf(cs) == 1 + Cardinality(ThrowingCalls(cs))

\* C18 (amended): every accepted transition appends exactly one record to
\* wsStateHistory, makes exactly one ws_state_change call with the new state,
\* the reason and the current reconnect-attempt count, and refreshes the
\* diagnostics once itself; callBackend refreshes them once more when the
\* ws_state_change callable throws.
C18_TransitionReportsOnce ==
  [][ /\ AcceptedRequest => AcceptedOnce(op'.arg, op'.reason, RefreshesOf(calls'))
      /\ op'.name = "offline"
           => /\ wsReconnectAttempts' = wsReconnectAttempts + 1
              /\ AcceptedOnce("reconnecting", "Browser offline", RefreshesOf(calls')) ]_vars

\* A request to stay in the current state, with a reason, has been accepted after
\* a reconnect attempt was counted, and the ws_state_change callable threw.
C18_Witness ==
  /\ op = [name |-> "transitionWsState", arg |-> "reconnecting", reason |-> "requested"]
  /\ Len(wsStateHistory) >= 2
  /\ wsStateHistory[Len(wsStateHistory) - 1].state = "reconnecting"
  /\ wsReconnectAttempts = 1
  /\ Len(calls) = 1
  /\ calls[1].binding = "throws"
  /\ calls[1].payload.reconnect_attempts = 1
  /\ refreshes = 2

\* The step is a transitionState request to the BackendBridge that is accepted.
BridgeAcceptedRequest ==
  /\ op'.name = "transitionState"
  /\ op'.arg # bridge.wsState

\* The history after the record of an accepted transition is added to `history`
\* under the cap of 200: the record is appended, and the oldest record leaves
\* when 200 were held already.
WithNewest(history, state, reason) ==
  SliceLast(Append(history, [state |-> state, reason |-> reason]), WsHistoryCap)

\* C19: the transition history never holds more than 200 records, and each
\* accepted transition appends its record and, once 200 are held, evicts
\* exactly the oldest one, so that the history is the most recent (up to 200)
\* accepted transitions in order; in the App and in the BackendBridge.
C19_HistoryKeepsNewest200 ==
  [][ /\ Len(wsStateHistory') <= WsHistoryCap
      /\ Len(bridge'.wsStateHistory) <= WsHistoryCap
      /\ AcceptedRequest
           => wsStateHistory' = WithNewest(wsStateHistory, op'.arg, op'.reason)
      /\ BridgeAcceptedRequest
           => bridge'.wsStateHistory = WithNewest(bridge.wsStateHistory, op'.arg, op'.reason)
    ]_vars

\* The App's part of C19 alone.
AppHistoryKeepsNewest200 ==
  [][ /\ Len(wsStateHistory') <= WsHistoryCap
      /\ AcceptedRequest
           => wsStateHistory' = WithNewest(wsStateHistory, op'.arg, op'.reason) ]_vars

\* The App's history is full and has evicted records.
AppHistoryFull ==
  /\ Len(wsStateHistory) = WsHistoryCap
  /\ wsStateHistory[1].reason = "requested"

(***************************************************************************)
(* Properties of the duplicate check over more than two calls.             *)
(***************************************************************************)
\* Two payloads of a sequence carry the same window id and event and time
\* stamps less than 250 ms apart.
RepeatedWithinWindow(seq) ==
  \E i, j \in DOMAIN seq :
    /\ i < j
    /\ seq[i].window_id = seq[j].window_id
    /\ seq[i].event = seq[j].event
    /\ seq[j].timestamp - seq[i].timestamp < DedupWindowMs
    /\ seq[i].timestamp - seq[j].timestamp < DedupWindowMs

\* C20: for every window id and event, no two payloads are made of the same
\* (window id, event) pair within 250 ms of each other, also when a different
\* event of the same window is emitted in between; in the App (whose payloads
\* are in the queue or dispatched, in the order they were produced in these
\* runs) and in the BackendBridge.
C20_NoRepeatWithinWindow ==
  /\ ~RepeatedWithinWindow(dispatched \o lifecycleQueue)
  /\ ~RepeatedWithinWindow(bridge.lifecycleQueue)

(***************************************************************************)
(* Properties of one flush.                                                *)
(***************************************************************************)
\* The payloads of the calls cs[i..] that returned false, in the calls' order.
RECURSIVE UnsentFrom(_, _)
UnsentFrom(cs, i) ==
  IF i > Len(cs) THEN <<>>
  ELSE IF cs[i].sent THEN UnsentFrom(cs, i + 1)
  ELSE <<cs[i].payload>> \o UnsentFrom(cs, i + 1)

\* C21: one run of flushLifecycleQueue attempts each payload of the queue once,
\* in the queue's order, and leaves in the queue exactly the payloads whose
\* dispatch returned false, in their original relative order.
C21_FlushKeepsUnsentInOrder ==
  [][ op'.name = "flush"
        => /\ Len(calls') = Len(lifecycleQueue)
           /\ \A i \in DOMAIN calls' :
                /\ calls'[i].name = "log_window_lifecycle"
                /\ calls'[i].payload = lifecycleQueue[i]
           /\ lifecycleQueue' = UnsentFrom(calls', 1) ]_vars

\* A flush of three payloads has sent the second and kept the first and the third.
C21_Witness ==
  /\ op.name = "flush"
  /\ Len(calls) = 3
  /\ ~calls[1].sent /\ calls[2].sent /\ ~calls[3].sent
  /\ lifecycleQueue = <<calls[1].payload, calls[3].payload>>
  /\ dispatched = <<calls[2].payload>>

(***************************************************************************)
(* Properties of the reconnect counter and of the monitor's startup.       *)
(***************************************************************************)
\* C22: a heartbeat tick with a negative probe adds exactly one to
\* wsReconnectAttempts and leaves the state `reconnecting`; when the state was
\* `reconnecting` already, it appends no history record and sends no
\* ws_state_change report.
C22_NegativeProbeIdempotent ==
  [][ (op'.name = "heartbeat" /\ op'.arg = "unreachable")
        => /\ wsReconnectAttempts' = wsReconnectAttempts + 1
           /\ wsState' = "reconnecting"
           /\ wsState = "reconnecting"
                => /\ wsStateHistory' = wsStateHistory
                   /\ CallsOf(calls', "ws_state_change") = {} ]_vars

\* The step's handler is one of the three reachability-negative signals.
NegativeSignal ==
  \/ op'.name = "webuiEvent" /\ op'.arg = "DISCONNECTED"
  \/ op'.name = "offline"
  \/ op'.name = "heartbeat" /\ op'.arg = "unreachable"

\* The step's handler made an accepted transition to `connected`.
ConnectedInStep ==
  /\ wsState' = "connected"
  /\ \E i \in CallsOf(calls', "ws_state_change") : calls'[i].payload.state = "connected"
  /\ Len(wsStateHistory') = Len(wsStateHistory) + 1

\* C23: wsReconnectAttempts grows by exactly one on each DISCONNECTED event,
\* browser-offline signal and negative heartbeat probe; any other step leaves
\* it as it is or sets it to 0, and it is set to 0 only in a step that makes an
\* accepted transition to `connected`.
C23_AttemptsCountNegativeSignals ==
  [][ /\ NegativeSignal => wsReconnectAttempts' = wsReconnectAttempts + 1
      /\ ~NegativeSignal
           => \/ wsReconnectAttempts' = wsReconnectAttempts
              \/ wsReconnectAttempts' = 0 /\ ConnectedInStep ]_vars

\* A CONNECTED event has reset the counter after a DISCONNECTED event counted.
C23_Witness ==
  /\ op = [name |-> "webuiEvent", arg |-> "CONNECTED"]
  /\ Len(wsStateHistory) = 4
  /\ wsStateHistory[3].state = "disconnected"
  /\ wsState = "connected"
  /\ wsReconnectAttempts = 0

\* The history starts with the `initializing` record, followed by the record of
\* the state that bridge detection found.
HistoryStartsWith(detected) ==
  /\ Len(wsStateHistory) >= 2
  /\ wsStateHistory[1].state = "initializing"
  /\ wsStateHistory[2].state = detected

\* C24 as it stands: when mount() has run, the state is `bridge_missing` if
\* window.webui is absent and `connected` if it is present, and the history
\* starts with an `initializing` record followed by that state's record.
C24_StartupDetectsBridge ==
  op.name = "mount"
    => /\ wsState = IF webui = "absent" THEN "bridge_missing" ELSE "connected"
       /\ HistoryStartsWith(wsState)

\* C24 (amended): when mount() has run, the state is `bridge_missing` if
\* window.webui is absent and `connected` if it is present, unless registering
\* the bridge event callback threw, in which case the state is `error`; the
\* history starts with an `initializing` record followed by the
\* `bridge_missing` or `connected` record.
C24_StartupDetectsBridgeOrError ==
  op.name = "mount"
    => /\ wsState = IF webui = "absent" THEN "bridge_missing"
                    ELSE IF op.arg = "throws" THEN "error"
                    ELSE "connected"
       /\ HistoryStartsWith(IF webui = "absent" THEN "bridge_missing" ELSE "connected")
       /\ Len(wsStateHistory) = IF wsState = "error" THEN 3 ELSE 2

\* mount() has run with the bridge object present and a working
\* setEventCallback.
C24_Witness ==
  /\ op.name = "mount" /\ op.arg = "ok"
  /\ webui = "full"
  /\ eventCallback
  /\ wsState = "connected"
  /\ Len(wsStateHistory) = 2

\* The step is a mount() in which webui.setEventCallback threw.
RegistrationThrew ==
  /\ op'.name = "mount" /\ op'.arg = "throws"
  /\ webui' # "absent"

\* C25: when registering the bridge event callback throws, the state becomes
\* `error`, wsReconnectAttempts is unchanged, exactly one ws_error_report is
\* issued and the heartbeat timer is running afterwards; and a positive
\* heartbeat probe in state `error` moves the state to `connected`.
C25_RegistrationFailureRecovers ==
  [][ /\ RegistrationThrew
        => /\ wsState' = "error"
           /\ wsReconnectAttempts' = wsReconnectAttempts
           /\ Cardinality({i \in DOMAIN calls' : calls'[i].name = "ws_error_report"}) = 1
           /\ wsHeartbeatTimer' # Null
      /\ (wsState = "error" /\ op' = [name |-> "heartbeat", arg |-> "reachable"])
        => wsState' = "connected"
    ]_vars

\* A positive heartbeat probe has moved the monitor from the `error` of a failed
\* registration to `connected`.
C25_Witness ==
  /\ op = [name |-> "heartbeat", arg |-> "reachable"]
  /\ Len(wsStateHistory) = 4
  /\ wsStateHistory[3] = [state |-> "error", reason |-> "setEventCallback failed"]
  /\ wsStateHistory[4].state = "connected"
  /\ wsState = "connected"
  /\ ~eventCallback

\* C26: a runtime-port-updated signal with a valid port (an integer in
\* 1..65535) sets the port to that value and the source to `injected`, leaves
\* wsState, wsStateHistory and wsReconnectAttempts unchanged and sends no
\* ws_state_change report; a signal with an invalid port changes no field.
C26_RuntimePortSignal ==
  [][ op'.name = "runtimePort"
        => IF IsValidPort(op'.arg)
             THEN /\ wsRuntimePort' = op'.arg.value
                  /\ wsRuntimePortSource' = "injected"
                  /\ UNCHANGED <<wsState, wsStateHistory, wsReconnectAttempts>>
                  /\ CallsOf(calls', "ws_state_change") = {}
             ELSE /\ UNCHANGED <<envVars, monVars, queueVars, winVars, bridge>>
                  /\ calls' = <<>>
    ]_vars

\* A signal with port 9000 has replaced a port resolved at startup, in a
\* monitor that has left its startup state.
C26_Witness ==
  /\ op.name = "runtimePort" /\ op.arg = Integer(9000)
  /\ wsRuntimePort = 9000
  /\ wsRuntimePortSource = "injected"
  /\ wsState = "reconnecting"
  /\ wsReconnectAttempts = 1

\* Ten to the power e.
RECURSIVE PowerOfTen(_)
PowerOfTen(e) == IF e = 0 THEN 1 ELSE 10 * PowerOfTen(e - 1)

\* The number a text denotes (Number(text)), for numerals of the forms
\* [-]digits, [-]digits.digits and [-]digits e digits; NaN for any other text.
NumberOf(text) ==
  LET trimmed == TrimStart(text)
      negative == trimmed # <<>> /\ Head(trimmed) = "-"
      body == IF negative THEN Tail(trimmed) ELSE trimmed
      n == LeadingDigits(body)
      whole == DigitsValue(SubSeq(body, 1, n))
      rest == SubSeq(body, n + 1, Len(body))
      after == IF rest = <<>> THEN <<>> ELSE Tail(rest)
      allDigits == after # <<>> /\ LeadingDigits(after) = Len(after)
      sign(v) == IF negative THEN 0 - v ELSE v
  IN IF n = 0 THEN NaN
     ELSE IF rest = <<>> THEN Integer(sign(whole))
     ELSE IF Head(rest) = "." /\ allDigits
       THEN IF DigitsValue(after) = 0 THEN Integer(sign(whole))
            ELSE Fraction(IF negative THEN 0 - whole - 1 ELSE whole)
     ELSE IF Head(rest) = "e" /\ allDigits
       THEN Integer(sign(whole * PowerOfTen(DigitsValue(after))))
     ELSE NaN

\* What a resolution is to yield from the injected value and the location's.
PortExpected(injected, location) ==
  IF IsValidPort(injected) THEN [port |-> injected, source |-> "injected"]
  ELSE IF IsValidPort(location) THEN [port |-> location, source |-> "location"]
  ELSE [port |-> JsNull, source |-> "unknown"]

\* C27: runtime port resolution yields the injected global value with source
\* `injected` when it is an integer in 1..65535; otherwise the numeric location
\* value with source `location`; otherwise null with source `unknown`; a
\* resolved port is always an integer in 1..65535.
C27_PortResolution ==
  /\ op.name = "mount"
       => /\ wsRuntimePortSource = PortExpected(op.injected, op.locationPort).source
          /\ wsRuntimePort = IF wsRuntimePortSource = "unknown" THEN Null
                              ELSE PortExpected(op.injected, op.locationPort).port.value
          /\ wsRuntimePort = Null \/ wsRuntimePort \in 1..MaxPort
  /\ op.name = "BackendBridge.resolveWsRuntimePort"
       => /\ bridge.wsRuntimePortSource =
               PortExpected(op.injected, NumberOf(op.locationPort)).source
          /\ bridge.wsRuntimePort = PortExpected(op.injected, NumberOf(op.locationPort)).port
          /\ bridge.wsRuntimePort = JsNull \/ IsValidPort(bridge.wsRuntimePort)

\* The callbacks of the timers: the flush intervals, the heartbeat interval and
\* the focus-debounce timeouts.
TimerHandlers ==
  {"flush", "heartbeat", "focusTimer", "BackendBridge.flush", "BackendBridge.focusTimer"}

\* C28: once the teardown routine has run, no timer fires any more: no flush, no
\* heartbeat, no focus-debounce callback runs, nothing is dispatched and no
\* lifecycle payload is produced.
C28_NoTimerAfterTeardown ==
  [][ bridge.destroyed
        => /\ op'.name \notin TimerHandlers
           /\ dispatched' = dispatched /\ produced' = produced
           /\ bridge'.dispatched = bridge.dispatched /\ bridge'.emitted = <<>>
    ]_vars

\* The step is an openWindow(title) whose title had no record.
OpensNewWindow ==
  /\ \/ op'.name = "openWindow" /\ WinBox
     \/ op'.name = "openWindowResume"
  /\ FindTitle(activeWindows, op'.arg) = 0

\* The last record is the new one, active; the records before it are the old ones,
\* none of them active.
NewRecordAloneActive(old, new, title) ==
  /\ Len(new) = Len(old) + 1
  /\ new[Len(new)].title = title /\ new[Len(new)].active
  /\ \A i \in 1..Len(old) :
       /\ new[i].id = old[i].id /\ new[i].title = old[i].title
       /\ ~new[i].active

\* C29: opening a window whose title has no open record appends one new record
\* with active = true, leaves every other record with active = false, produces
\* one `opened` payload for the new id, and leaves the focus-debounce timer
\* of that id armed, whose callback is the `active` emission that follows.
C29_OpenAppendsActivatesAndEmits ==
  [][ OpensNewWindow
        => /\ NewRecordAloneActive(activeWindows, activeWindows', op'.arg)
           /\ Len(emitted') = 1
           /\ emitted'[1].event = "opened"
           /\ emitted'[1].window_id = activeWindows'[Len(activeWindows')].id
           /\ activeWindows'[Len(activeWindows')].id \in DOMAIN lifecycleFocusTimers'
    ]_vars

\* The step is a focus request of the window manager for window op'.arg.
FocusRequest == op'.name \in {"onfocus", "onmaximize"}

\* After a focus request the window has one pending emission, due one debounce
\* delay after the request: what was pending before is cancelled.
RequestRearms ==
  FocusRequest
    => /\ op'.arg \in DOMAIN lifecycleFocusTimers'
       /\ lifecycleFocusTimers'[op'.arg].due = now' + FocusDebounceMs

\* `active` payloads come from the debounce timer only, which fires when it is
\* due and is gone afterwards.
OnlyTimerEmitsActive ==
  /\ op'.name = "focusTimer"
       => /\ now' >= lifecycleFocusTimers[op'.arg].due
          /\ op'.arg \notin DOMAIN lifecycleFocusTimers'
  /\ op'.name # "focusTimer"
       => \A i \in DOMAIN emitted' : emitted'[i].event # "active"

\* The timer's callback produces one `active` payload for its window.
TimerEmitsActive ==
  /\ Len(emitted') = 1
  /\ emitted'[1].event = "active"
  /\ emitted'[1].window_id = op'.arg

\* The last payload produced for the window is an `active` one, less than 250 ms old.
ActiveJustSent(id) ==
  /\ id \in DOMAIN lifecycleLastSent
  /\ lifecycleLastSent[id].state = "active"
  /\ now' - lifecycleLastSent[id].ts < DedupWindowMs

\* C30 as it stands: a burst of focus requests for one window, each arriving
\* before the debounce delay of the one before has elapsed, leaves one pending
\* emission, due one debounce delay after the last request, and that one
\* produces exactly one `active` payload.
C30_BurstEmitsOnce ==
  [][ /\ RequestRearms
      /\ OnlyTimerEmitsActive
      /\ op'.name = "focusTimer" => TimerEmitsActive
    ]_vars

\* C30 (amended): the one pending emission of a burst produces exactly one
\* `active` payload unless the last payload produced for the same window id is
\* an `active` one, produced less than 250 ms before the emission fires, in
\* which case it produces none.
C30_BurstEmitsOnceUnlessRepeat ==
  [][ /\ RequestRearms
      /\ OnlyTimerEmitsActive
      /\ op'.name = "focusTimer"
           => IF ActiveJustSent(op'.arg) THEN emitted' = <<>> ELSE TimerEmitsActive
    ]_vars

\* A window was created and maximized in the same millisecond (two focus
\* requests), and 125 ms later its timer has produced the one `active` payload,
\* the second payload of the run.
C30_Witness ==
  /\ op.name = "focusTimer"
  /\ now = op.arg + 125
  /\ Len(emitted) = 1 /\ emitted[1].event = "active" /\ emitted[1].serial = 2
  /\ \E i \in DOMAIN activeWindows :
       activeWindows[i].id = op.arg /\ activeWindows[i].maximized

\* The records are the same windows as before: same ids and titles, in order.
SameWindows(old, new) ==
  /\ Len(new) = Len(old)
  /\ \A i \in DOMAIN old : new[i].id = old[i].id /\ new[i].title = old[i].title

AllHidden(ws) == \A i \in DOMAIN ws : ws[i].minimized /\ ~ws[i].active

\* The records that are not minimized, in order.
Shown(ws) == SelectSeq(ws, LAMBDA w : ~w.minimized)

\* C31 as it stands: hideAllWindows keeps the window records (same ids and
\* titles, none removed), leaves every record minimized and not active, and
\* produces one `minimized` payload for each window that was not minimized.
C31_HideAllMinimizesEach ==
  [][ op'.name = "hideAllWindows"
        => /\ SameWindows(activeWindows, activeWindows')
           /\ AllHidden(activeWindows')
           /\ Len(emitted') = Len(Shown(activeWindows))
           /\ \A i \in DOMAIN emitted' :
                /\ emitted'[i].event = "minimized"
                /\ emitted'[i].window_id = Shown(activeWindows)[i].id
    ]_vars

\* The last payload produced for the window is a `minimized` one, less than 250 ms old.
MinimizedJustSent(id) ==
  /\ id \in DOMAIN lifecycleLastSent
  /\ lifecycleLastSent[id].state = "minimized"
  /\ now' - lifecycleLastSent[id].ts < DedupWindowMs

ShownIds == {activeWindows[i].id : i \in {j \in DOMAIN activeWindows : ~activeWindows[j].minimized}}

\* C31 (amended): hideAllWindows keeps the window records, leaves every record
\* minimized and not active, and produces `minimized` payloads only: one for
\* the id of each window that was not minimized, unless the last payload
\* produced for that id is a `minimized` one, produced less than 250 ms before,
\* and then none.
C31_HideAllMinimizesEachUnlessRepeat ==
  [][ op'.name = "hideAllWindows"
        => /\ SameWindows(activeWindows, activeWindows')
           /\ AllHidden(activeWindows')
           /\ \A i \in DOMAIN emitted' :
                emitted'[i].event = "minimized" /\ emitted'[i].window_id \in ShownIds
           /\ \A id \in ShownIds :
                Cardinality({i \in DOMAIN emitted' : emitted'[i].window_id = id})
                  = IF MinimizedJustSent(id) THEN 0 ELSE 1
    ]_vars

\* hideAllWindows has minimized two windows with different ids and produced a
\* `minimized` payload for each.
C31_Witness ==
  /\ op.name = "hideAllWindows"
  /\ Len(activeWindows) = 2 /\ AllHidden(activeWindows)
  /\ activeWindows[1].id # activeWindows[2].id
  /\ Len(emitted) = 2
  /\ emitted[1].window_id = activeWindows[1].id
  /\ emitted[2].window_id = activeWindows[2].id

\* C32: no call of callBackend, whatever its outcome (it returned false, the
\* direct callable threw, or the promise of webui.call was rejected), changes
\* wsState, wsStateHistory or wsReconnectAttempts.
C32_CallLeavesConnectionState ==
  [][ op'.name \in {"callBackend", "callResolved", "callRejected"}
        => UNCHANGED <<wsState, wsStateHistory, wsReconnectAttempts>>
    ]_vars

\* A promise of webui.call was rejected while the monitor was reconnecting, after
\* a call whose direct callable threw.
C32_Witness ==
  /\ op.name = "callRejected"
  /\ wsBackendSendFail = 2
  /\ wsLastError.message = RejectedMessage
  /\ wsState = "reconnecting"
  /\ wsReconnectAttempts = 1

\* C33: in the BackendBridge, while the backend is not dispatchable, whatever
\* the interleaving of emitWindowLifecycle calls and flushes, lifecycleQueue
\* holds at most 256 payloads: the oldest one is evicted to admit a new one.
C33_BridgeQueueBounded ==
  Len(bridge.lifecycleQueue) <= LifecycleQueueCap

\* C34: no two records of activeWindows share their id, whatever openWindow
\* calls with distinct titles were made, those made at one clock value included.
C34_WindowIdsDistinct ==
  \A i, j \in DOMAIN activeWindows :
    i # j => activeWindows[i].id # activeWindows[j].id

\* C35: no two records of activeWindows share their title, whatever openWindow
\* calls (calls that overlap at their await and carry the same title included)
\* and close operations were made.
C35_WindowTitlesDistinct ==
  \A i, j \in DOMAIN activeWindows :
    i # j => activeWindows[i].title # activeWindows[j].title

\* A call for "Calculator" that was suspended has resumed after an overlapping
\* call for the same title had created the window: one instance, one record.
C35_Witness ==
  /\ op = [name |-> "openWindowResume", arg |-> "Calculator"]
  /\ Len(activeWindows) = 1
  /\ activeWindows[1].title = "Calculator"
  /\ Len(winboxes) = 1
  /\ openCalls = <<>>

\* C36: once mount() has run, the state is never `initializing` and
\* `bridge_missing` is never entered again, and every heartbeat tick, the first
\* one included, leaves the state `connected` or `reconnecting`.
C36_StartupStatesNeverReturn ==
  [][ /\ mounted' => wsState' # "initializing"
      /\ (mounted /\ wsState # "bridge_missing") => wsState' # "bridge_missing"
      /\ op'.name = "heartbeat" => wsState' \in {"connected", "reconnecting"}
    ]_vars

\* The first heartbeat after a startup that found no bridge object has found
\* it reachable: the state went from `bridge_missing` to `connected`.
C36_Witness ==
  /\ op = [name |-> "heartbeat", arg |-> "reachable"]
  /\ Len(wsStateHistory) = 3
  /\ wsStateHistory[2].state = "bridge_missing"
  /\ wsState = "connected"

\* C37: a produced payload occurs at most once in lifecycleQueue, is among
\* the payloads dispatched with a true result at most once, and is not queued
\* any more once it was dispatched, so that no retry delivers it again.
C37_NoPayloadTwice ==
  /\ Cardinality(Serials(lifecycleQueue)) = Len(lifecycleQueue)
  /\ Cardinality(Serials(dispatched)) = Len(dispatched)
  /\ Serials(lifecycleQueue) \cap Serials(dispatched) = {}

\* A flush has delivered two queued payloads, after a dispatch that failed
\* because the callable threw.
C37_Witness ==
  /\ op.name = "flush"
  /\ Len(dispatched) = 2
  /\ Len(calls) = 2
  /\ lifecycleQueue = <<>>
  /\ wsBackendSendFail >= 1

\* C38: no window record is both minimized and active.
C38_MinimizedNotActive ==
  \A i \in DOMAIN activeWindows : activeWindows[i].minimized => ~activeWindows[i].active

\* Two windows with different ids: the first was minimized by its own control,
\* the second is the active one.
C38_Witness ==
  /\ Len(activeWindows) = 2
  /\ activeWindows[1].id # activeWindows[2].id
  /\ activeWindows[1].minimized /\ ~activeWindows[1].active
  /\ ~activeWindows[2].minimized /\ activeWindows[2].active
  /\ op.name = "onminimize"

\* C39: in the App, wsRuntimePort is null exactly when wsRuntimePortSource
\* is `unknown`.
C39_PortNullIffSourceUnknown ==
  (wsRuntimePort = Null) <=> (wsRuntimePortSource = "unknown")

\* A runtime-port signal has set port 8080 in a monitor that is connected, after
\* a startup whose candidates were both invalid.
C39_Witness ==
  /\ op.name = "runtimePort" /\ op.arg = Integer(8080)
  /\ wsRuntimePort = 8080
  /\ wsRuntimePortSource = "injected"
  /\ wsState = "connected"

====
